---- MODULE Spec2Model ----
(***************************************************************************)
(* State synchronisation engine of blackroad-environments:                 *)
(* StateManager (src/src/state/manager.ts) over the Cloudflare KV and      *)
(* Salesforce adapters, with the content fingerprint hashState             *)
(* (utils/hash.ts).                                                        *)
(*                                                                         *)
(* Conventions                                                             *)
(*  - a JavaScript string is a sequence of tokens; '' is << >>.            *)
(*  - SHA-256 is taken as injective: Sha256(s) wraps s.                    *)
(*  - an ISO timestamp is a natural number; 0 stands for a string that     *)
(*    Date cannot parse (such as the initial lastSync ''), for which       *)
(*    getTime() is NaN.                                                    *)
(*  - a JavaScript object is a sequence of entries in insertion order.     *)
(*  - every await is a suspension point: an invocation of sync() is a      *)
(*    frame with a program counter, and the other operations interleave    *)
(*    with it only where the frame is suspended.                           *)
(***************************************************************************)
EXTENDS Integers, Sequences, FiniteSets, TLC

\* ------------------------------------------------------------------ bounds
\* the clock stops at MaxTime
MaxTime == 2
\* update() is not taken beyond this version
MaxVersion == 2
\* frames available to overlapping invocations of sync()
MaxCalls == 2
\* events from outside the engine in one run
MaxOps == 5
\* the largest offset and limit given to query()
MaxSlice == 2
\* the largest iteration count given to hash()
MaxIterations == 2
\* the longest list given to merkleRoot()
MaxLeaves == 4
\* the largest number of retries a client is configured with explicitly
MaxRetries == 2

\* ------------------------------------------------------ strings and hashes
\* createHash('sha256').update(data).digest('hex'), injective
Sha256(s) == <<"sha256(">> \o s \o <<")">>

\* the names that occur as keys of record data, in the order of
\* Array.prototype.sort (UTF-16 code units)
KeyOrder == <<"Id", "Name", "app", "env", "meta">>

Prim(tok) == [tag |-> "p", prim |-> tok, obj |-> << >>]
Obj(entries) == [tag |-> "o", prim |-> "", obj |-> entries]

Keys(obj) == {obj[i].k : i \in DOMAIN obj}
Has(obj, k) == k \in Keys(obj)
Get(obj, k) == obj[CHOOSE i \in DOMAIN obj : obj[i].k = k].v

\* Object.keys(state).sort()
SortedKeys(obj) == SelectSeq(KeyOrder, LAMBDA k : k \in Keys(obj))

\* JSON.stringify of a nested object under an array replacer: the properties
\* named by the replacer, in the replacer's order, at every depth
RECURSIVE StringifyInner(_, _, _, _)
RECURSIVE StringifyValue(_, _)
StringifyInner(obj, allow, i, first) ==
  IF i > Len(allow) THEN << >>
  ELSE IF Has(obj, allow[i])
       THEN (IF first THEN << >> ELSE <<",">>)
            \o <<allow[i], ":">> \o StringifyValue(Get(obj, allow[i]), allow)
            \o StringifyInner(obj, allow, i + 1, FALSE)
       ELSE StringifyInner(obj, allow, i + 1, first)

StringifyValue(v, allow) ==
  IF v.tag = "p" THEN <<v.prim>>
  ELSE <<"{">> \o StringifyInner(v.obj, allow, 1, TRUE) \o <<"}">>

\* JSON.stringify(state, allow): the array replacer filters the properties of
\* the object and of every object nested in it
RECURSIVE StringifyProps(_, _, _, _)
StringifyProps(obj, allow, i, first) ==
  IF i > Len(allow) THEN << >>
  ELSE IF Has(obj, allow[i])
       THEN (IF first THEN << >> ELSE <<",">>)
            \o <<allow[i], ":">> \o StringifyValue(Get(obj, allow[i]), allow)
            \o StringifyProps(obj, allow, i + 1, FALSE)
       ELSE StringifyProps(obj, allow, i + 1, first)

Stringify(obj, allow) ==
  <<"{">> \o StringifyProps(obj, allow, 1, TRUE) \o <<"}">>

\* mutant: hashState() without the sort of the keys
hashStateUnsorted(state) ==
  Sha256(Stringify(state, [i \in DOMAIN state |-> state[i].k]))

\* hashState of a record's data
hashState(state) == Sha256(Stringify(state, SortedKeys(state)))

\* new Date().toISOString() as it is serialized
IsoTokens == <<"T1", "T2", "T3", "T4", "T5", "T6">>
IsoString(t) == IF t \in DOMAIN IsoTokens THEN IsoTokens[t] ELSE "''"

\* the record ids of the model, in sort order; hashId() and the CRM ids
IdOrder == <<"crm_account_A1", "crm_contact_C1", "crm_opportunity_O1", "r1", "r2">>
Ids == {IdOrder[i] : i \in DOMAIN IdOrder}

\* JSON.stringify of the records object under the replacer `allow`: a record
\* is serialized only if its id is one of the replacer's names, and of its
\* fields only those the replacer names
StringifyRecord(r, allow) ==
  <<"{">>
  \o (IF \E i \in DOMAIN allow : allow[i] = "hash"
      THEN <<"hash", ":">> \o r.hash ELSE << >>)
  \o <<"}">>

RECURSIVE StringifyRecords(_, _, _, _)
StringifyRecords(recs, allow, i, first) ==
  IF i > Len(allow) THEN << >>
  ELSE IF allow[i] \in DOMAIN recs
       THEN (IF first THEN << >> ELSE <<",">>)
            \o <<allow[i], ":">> \o StringifyRecord(recs[allow[i]], allow)
            \o StringifyRecords(recs, allow, i + 1, FALSE)
       ELSE StringifyRecords(recs, allow, i + 1, first)

\* hashState({records, lastSync}), the store-wide hash
hashStateLocal(recs, lastSync) ==
  LET allow == <<"lastSync", "records">>
  IN Sha256(<<"{", "lastSync", ":", IsoString(lastSync), ",", "records", ":", "{">>
            \o StringifyRecords(recs, allow, 1, TRUE) \o <<"}", "}">>)

\* hashState({records, lastSync, hash}), the fingerprint of a pushed payload
hashStatePayload(p) ==
  LET allow == <<"hash", "lastSync", "records">>
  IN Sha256(<<"{", "hash", ":">> \o p.hash
            \o <<",", "lastSync", ":", IsoString(p.lastSync), ",", "records", ":", "{">>
            \o StringifyRecords(p.records, allow, 1, TRUE) \o <<"}", "}">>)

\* ------------------------------------------------------------------ state
VARIABLES
  records,            \* localState.records: id -> StateRecord
  lastSync,           \* localState.lastSync
  hash,               \* localState.hash
  syncInProgress,     \* StateManager.syncInProgress
  syncTimer,          \* StateManager.syncTimer is set
  conflictResolution, \* config.conflictResolution
  cloudflare,         \* this.cloudflare is not null
  salesforce,         \* this.salesforce is not null
  now,                \* the wall clock read by new Date()
  kv,                 \* Cloudflare KV: the value under 'blackroad_state', if any
  frames,             \* the invocations of sync(), each suspended at an await
  ops,                \* the events from outside the engine so far
  returned,           \* the result a sync() call returned in the step just taken, if any
  acked,              \* history: the copies the adapters have acknowledged, if recorded
  calc                \* a function of utils/hash.ts under evaluation, if any

vars == <<records, lastSync, hash, syncInProgress, syncTimer, conflictResolution,
          cloudflare, salesforce, now, kv, frames, ops, returned, acked, calc>>

Policies == {"local", "remote", "latest", "manual"}
Types == {"deployment", "crm_account", "crm_contact", "crm_opportunity"}
CallIds == 1..MaxCalls

\* data of the records the model creates
DataA == <<[k |-> "app", v |-> Prim("x")]>>
DataB == <<[k |-> "app", v |-> Prim("y")]>>
PartialSet == {<<[k |-> "env", v |-> Prim("s")]>>}

\* data with an object-valued field, and partials that add a field, replace
\* one, and replace the object-valued one by an object that differs inside
DataNested ==
  <<[k |-> "app", v |-> Prim("x")],
    [k |-> "meta", v |-> Obj(<<[k |-> "a", v |-> Prim("1")]>>)]>>
PartialWide ==
  PartialSet
  \cup {<<[k |-> "app", v |-> Prim("y")]>>,
        <<[k |-> "meta", v |-> Obj(<<[k |-> "a", v |-> Prim("2")]>>)]>>}

\* { ...a, ...b }: the keys of a in their order with b's values over a's,
\* then the keys only b has
Spread(a, b) ==
  [i \in DOMAIN a |-> IF Has(b, a[i].k) THEN [k |-> a[i].k, v |-> Get(b, a[i].k)]
                      ELSE a[i]]
  \o SelectSeq(b, LAMBDA e : ~Has(a, e.k))

\* a StateRecord object
Record(id, type, data, h, version, createdAt, updatedAt, syncedTo) ==
  [id |-> id, type |-> type, data |-> data, hash |-> h, version |-> version,
   createdAt |-> createdAt, updatedAt |-> updatedAt, syncedTo |-> syncedTo]

\* the step just taken returned from no sync() call
NoReturn == returned' = << >>

\* the step is one more event from outside the engine: an operation of the
\* application, a write of another writer, a tick of the clock or an adapter
\* call that goes wrong
Issue == ops < MaxOps /\ ops' = ops + 1
Fault(wrong) == IF wrong THEN Issue ELSE ops' = ops

\* a frame that runs nothing
IdleFrame ==
  [pc |-> "idle", direction |-> "bidirectional", force |-> FALSE,
   includeTypes |-> << >>, excludeTypes |-> << >>,
   synced |-> << >>, failed |-> << >>, conflicts |-> << >>,
   pull |-> [synced |-> << >>, failed |-> << >>, conflicts |-> << >>],
   push |-> [synced |-> << >>, failed |-> << >>],
   kvResult |-> "none", recordsToSync |-> {}, held |-> {}, broken |-> {},
   payload |-> << >>]

\* pushToRemote keeps the record objects it selected across its awaits and
\* marks them afterwards. recordsToSync are the ids of the selected records;
\* held are those whose selected object is still the one in the map: a
\* record object that is replaced in the map, or deleted from it, never
\* comes back, and what is pushed onto its syncedTo is seen by nobody.
\* broken are those whose selected object has no syncedTo.
Replaced(old, new) ==
  {id \in DOMAIN old : id \notin DOMAIN new \/ new[id] # old[id]}
Release(fs, ids) ==
  [c \in DOMAIN fs |-> [fs[c] EXCEPT !.held = @ \ ids]]

\* the states another writer leaves under 'blackroad_state'
RemoteRecord(id, data, t) ==
  Record(id, "deployment", data, hashState(data), 1, t, t, <<"cloudflare">>)
RemoteRecordMaps ==
  {[id \in {"r1"} |-> RemoteRecord(id, DataB, 1)],
   [id \in {"r1", "r2"} |->
      IF id = "r1" THEN RemoteRecord(id, DataB, MaxTime) ELSE RemoteRecord(id, DataA, 1)]}
Payload(recs, ls, h) == [records |-> recs, lastSync |-> ls, hash |-> h]
\* the value storeState() writes: { data, hash, updatedAt }
Blob(payload) == [data |-> payload, hash |-> hashStatePayload(payload)]
\* a value whose recorded hash is not the hash of its data
Corrupt(blob) == [blob EXCEPT !.hash = Sha256(<<"corrupt">>)]
RemoteBlobs ==
  LET good == {Blob(Payload(m, 1, << >>)) : m \in RemoteRecordMaps}
  IN good \cup {Corrupt(Blob(Payload([id \in {"r1"} |-> RemoteRecord(id, DataB, MaxTime)],
                                      1, << >>)))}

\* what getCRMState() may find: the accounts, contacts and opportunities
\* Salesforce holds when it is queried
Account(name) == <<[k |-> "Id", v |-> Prim("A1")], [k |-> "Name", v |-> Prim(name)]>>
NoCRM == [accounts |-> << >>, contacts |-> << >>, opportunities |-> << >>]
CRMStates == {NoCRM, [NoCRM EXCEPT !.accounts = <<Account("n1")>>]}

\* the copies of a map of records, as acknowledged by an adapter: the
\* adapter, the id and the fingerprint of each
Copies(store, recs) == {<<store, id, recs[id].hash>> : id \in DOMAIN recs}
\* the history gains the copies an adapter stored or reported in this step
Ack(copies) ==
  acked' = IF acked.on THEN [acked EXCEPT !.set = @ \cup copies] ELSE acked

\* the history gains the ids delete() removed in this step, if it records
\* them
Gone(ids) ==
  acked' = IF "gone" \in DOMAIN acked THEN [acked EXCEPT !.gone = @ \cup ids]
           ELSE acked

\* the history of the runtime's intervals, if it is recorded: those made by
\* setInterval so far, and those of them not cleared
SetInterval ==
  acked' = IF "timers" \in DOMAIN acked
           THEN [acked EXCEPT !.timers = [made |-> @.made + 1, live |-> @.live + 1]]
           ELSE acked
ClearInterval ==
  acked' = IF "timers" \in DOMAIN acked
           THEN [acked EXCEPT !.timers = [made |-> @.made, live |-> @.live - 1]]
           ELSE acked
\* an interval of the runtime is due
IntervalLive == IF "timers" \in DOMAIN acked THEN acked.timers.live > 0 ELSE syncTimer

\* the engine and its surroundings after construction
InitStore ==
  /\ records = << >>
  /\ lastSync = 0
  /\ hash = << >>
  /\ syncInProgress = FALSE
  /\ syncTimer = FALSE
  /\ conflictResolution \in Policies
  /\ cloudflare \in BOOLEAN
  /\ salesforce \in BOOLEAN
  /\ now = 1
  /\ kv = << >>
  /\ frames = [c \in CallIds |-> IdleFrame]
  /\ ops = 0
  /\ returned = << >>

\* no function under evaluation
NoCalc == [args |-> << >>, value |-> << >>]

Init ==
  /\ InitStore
  /\ acked = [on |-> FALSE, set |-> {}]
  /\ calc = NoCalc

\* the same, with the history of acknowledgements recorded
InitAck ==
  /\ InitStore
  /\ acked = [on |-> TRUE, set |-> {}]
  /\ calc = NoCalc

\* the same, with the history of the runtime's intervals recorded
InitTimer ==
  /\ InitStore
  /\ acked = [on |-> FALSE, set |-> {}, timers |-> [made |-> 0, live |-> 0]]
  /\ calc = NoCalc

\* the same, with the history of the ids delete() removed recorded
InitGone ==
  /\ InitStore
  /\ acked = [on |-> FALSE, set |-> {}, gone |-> {}]
  /\ calc = NoCalc

\* --------------------------------------------------------- record store
\* updateLocalHash()
updateLocalHash(recs, ls) == hashStateLocal(recs, ls)

\* the ids the application creates, updates and deletes records under
LocalIds == {"r1"}

\* hashId(): an id no store holds
FreshIds ==
  LocalIds \ (DOMAIN records
                  \cup (IF kv = << >> THEN {} ELSE DOMAIN kv[1].data.records))

\* create(type, data)
Create(type, data) ==
  /\ \E id \in FreshIds :
       records' = (id :> Record(id, type, data, hashState(data), 1, now, now,
                                << >>)) @@ records
  /\ hash' = updateLocalHash(records', lastSync)
  /\ UNCHANGED <<lastSync, syncInProgress, syncTimer, conflictResolution, cloudflare,
                 salesforce, now, kv, frames, acked, calc>>
  /\ NoReturn

\* mutant: update() leaves syncedTo as it was
UpdatedKeepsSyncedTo(record, data) ==
  LET updatedData == Spread(record.data, data)
  IN Record(record.id, record.type, updatedData, hashState(updatedData),
            record.version + 1, record.createdAt, now,
            IF "syncedTo" \in DOMAIN record THEN record.syncedTo ELSE << >>)

\* the record update(id, data) stores
Updated(record, data) ==
  LET updatedData == Spread(record.data, data)
  IN Record(record.id, record.type, updatedData, hashState(updatedData),
            record.version + 1, record.createdAt, now, << >>)

\* update(id, data); on an unknown id it returns null
Update(id, data) ==
  /\ IF id \in DOMAIN records
     THEN /\ records[id].version < MaxVersion
          /\ records' = [records EXCEPT ![id] = Updated(records[id], data)]
          /\ hash' = updateLocalHash(records', lastSync)
          /\ frames' = Release(frames, {id})
     ELSE UNCHANGED <<records, hash, frames>>
  /\ UNCHANGED <<lastSync, syncInProgress, syncTimer, conflictResolution, cloudflare,
                 salesforce, now, kv, acked, calc>>
  /\ NoReturn

\* mutant: delete(id) keeps the id in the map, marked as deleted
DeleteTombstone(id) ==
  /\ IF id \in DOMAIN records
     THEN /\ records' = [records EXCEPT ![id].type = "deleted"]
          /\ hash' = updateLocalHash(records', lastSync)
          /\ frames' = Release(frames, {id})
     ELSE UNCHANGED <<records, hash, frames>>
  /\ Gone(IF id \in DOMAIN records THEN {id} ELSE {})
  /\ UNCHANGED <<lastSync, syncInProgress, syncTimer, conflictResolution, cloudflare,
                 salesforce, now, kv, calc>>
  /\ NoReturn

\* delete(id)
Delete(id) ==
  /\ IF id \in DOMAIN records
     THEN /\ records' = [i \in DOMAIN records \ {id} |-> records[i]]
          /\ hash' = updateLocalHash(records', lastSync)
          /\ frames' = Release(frames, {id})
     ELSE UNCHANGED <<records, hash, frames>>
  /\ Gone(IF id \in DOMAIN records THEN {id} ELSE {})
  /\ UNCHANGED <<lastSync, syncInProgress, syncTimer, conflictResolution, cloudflare,
                 salesforce, now, kv, calc>>
  /\ NoReturn

\* what importState() is given: a state object with a records object or
\* without one, as exportState() made it or as anyone wrote it. It is not
\* validated: a record may lack syncedTo, or carry a hash that is not the
\* hash of its data
WithoutSyncedTo(r) ==
  [id |-> r.id, type |-> r.type, data |-> r.data, hash |-> r.hash,
   version |-> r.version, createdAt |-> r.createdAt, updatedAt |-> r.updatedAt]
ImportRecord(id, data, h, syncedTo) ==
  Record(id, "deployment", data, h, 1, 1, 1, syncedTo)
ImportRecordMaps ==
  {[id \in {"r1"} |-> ImportRecord(id, DataA, hashState(DataA), <<"cloudflare", "salesforce">>)],
   [id \in {"r1"} |-> WithoutSyncedTo(ImportRecord(id, DataA, hashState(DataA), << >>))],
   [id \in {"r1"} |-> ImportRecord(id, DataB, hashState(DataA), << >>)],
   [id \in {"r1", "r2"} |->
      IF id = "r1" THEN ImportRecord(id, DataA, hashState(DataA), << >>)
      ELSE WithoutSyncedTo(ImportRecord(id, DataB, hashState(DataB), << >>))]}
\* Object.fromEntries(map): an object with one property per entry of the
\* map, in the order of the map
fromEntries(map) ==
  LET ids == SelectSeq(IdOrder, LAMBDA id : id \in DOMAIN map)
  IN [i \in DOMAIN ids |-> [k |-> ids[i], v |-> map[ids[i]]]]

\* new Map(Object.entries(obj)): a map with one entry per property
MapOfEntries(obj) == [id \in Keys(obj) |-> Get(obj, id)]

\* an absent property is << >>, a given one <<value>>
ImportStates ==
  {[records |-> <<fromEntries(m)>>, lastSync |-> <<1>>] : m \in ImportRecordMaps}
  \cup {[records |-> << >>, lastSync |-> << >>]}

\* mutant: exportState() writes every record out at version 1
exportStateResetsVersion ==
  [records |-> <<fromEntries([id \in DOMAIN records |->
                                [records[id] EXCEPT !.version = 1]])>>,
   lastSync |-> <<lastSync>>, hash |-> hash, exportedAt |-> now]

\* exportState()
exportState ==
  [records |-> <<fromEntries(records)>>, lastSync |-> <<lastSync>>,
   hash |-> hash, exportedAt |-> now]

\* what importState(state) does to the manager
Imported(state) ==
  /\ IF state.records # << >>
     THEN /\ records' = MapOfEntries(state.records[1])
          /\ frames' = Release(frames, DOMAIN records)
     ELSE UNCHANGED <<records, frames>>
  /\ lastSync' = IF state.lastSync # << >> THEN state.lastSync[1] ELSE 0
  /\ hash' = updateLocalHash(records', lastSync')
  /\ UNCHANGED <<syncInProgress, syncTimer, conflictResolution, cloudflare,
                 salesforce, now, kv, acked>>
  /\ NoReturn

\* importState(state)
ImportState(state) == Imported(state) /\ UNCHANGED calc

\* the application calls exportState() and keeps the document: calc holds
\* the records map at the call and the document returned
ExportState ==
  /\ calc' = [args |-> <<records>>, value |-> <<exportState>>]
  /\ UNCHANGED <<records, lastSync, hash, syncInProgress, syncTimer,
                 conflictResolution, cloudflare, salesforce, now, kv, frames,
                 acked>>
  /\ NoReturn

\* importState() is given the document exportState() returned, on a manager
\* that is as it was at the export, changed since, or empty; calc then also
\* holds the records map after the import. No sync() is running
ImportExported ==
  /\ Len(calc.value) = 1
  /\ Imported(calc.value[1])
  /\ calc' = [calc EXCEPT !.value = Append(@, records')]

\* clear()
Clear ==
  /\ records' = << >>
  /\ lastSync' = 0
  /\ hash' = << >>
  /\ frames' = Release(frames, DOMAIN records)
  /\ UNCHANGED <<syncInProgress, syncTimer, conflictResolution, cloudflare,
                 salesforce, now, kv, acked, calc>>
  /\ NoReturn

\* Array.from(map.values()): the records in the order of the map
Values(map) ==
  LET ids == SelectSeq(IdOrder, LAMBDA id : id \in DOMAIN map)
  IN [i \in DOMAIN ids |-> map[ids[i]]]

Min(a, b) == IF a < b THEN a ELSE b
Max(a, b) == IF a > b THEN a ELSE b

\* Array.prototype.slice(begin, end): a negative index counts from the end
Slice(seq, begin, end) ==
  LET from == IF begin < 0 THEN Max(Len(seq) + begin, 0) ELSE Min(begin, Len(seq))
      to == IF end < 0 THEN Max(Len(seq) + end, 0) ELSE Min(end, Len(seq))
  IN SubSeq(seq, from + 1, to)

\* a caller's dataFilter: the data has the value under the key
Holds(pred, data) == Has(data, pred.k) /\ Get(data, pred.k) = pred.v

\* query(filter); an absent property of the filter is << >>. A filter
\* property is applied when it is truthy: given, and not '' or 0
query(filter) ==
  LET all == Values(records)
      byType == IF filter.type # << >> /\ filter.type[1] # ""
                THEN SelectSeq(all, LAMBDA r : r.type = filter.type[1])
                ELSE all
      byData == IF filter.dataFilter # << >>
                THEN SelectSeq(byType, LAMBDA r : Holds(filter.dataFilter[1], r.data))
                ELSE byType
      afterOffset == IF filter.offset # << >> /\ filter.offset[1] # 0
                     THEN Slice(byData, filter.offset[1], Len(byData))
                     ELSE byData
  IN IF filter.limit # << >> /\ filter.limit[1] # 0
     THEN Slice(afterOffset, 0, filter.limit[1])
     ELSE afterOffset

\* the filter of getSyncStatus(): the records counted as pending
Pending(r) == Len(r.syncedTo) < 2

\* getSyncStatus()
getSyncStatus ==
  [lastSync |-> lastSync,
   recordCount |-> Cardinality(DOMAIN records),
   pendingSync |-> Cardinality({id \in DOMAIN records : Pending(records[id])}),
   hash |-> hash]

\* ----------------------------------------------------------- environment
\* time passes
Tick ==
  /\ now < MaxTime
  /\ now' = now + 1
  /\ UNCHANGED <<records, lastSync, hash, syncInProgress, syncTimer,
                 conflictResolution, cloudflare, salesforce, kv,
                 frames, acked, calc>>
  /\ NoReturn

\* another writer replaces the value under 'blackroad_state'
RemoteWrite ==
  /\ \E b \in RemoteBlobs : kv' = <<b>>
  /\ kv' # kv
  /\ UNCHANGED <<records, lastSync, hash, syncInProgress, syncTimer,
                 conflictResolution, cloudflare, salesforce, now,
                 frames, acked, calc>>
  /\ NoReturn

\* ------------------------------------------------------------ adapters
\* CloudflareClient.retrieveState(key) once kvGet has answered: no data
\* without a value, else the parsed state with its recorded hash and whether
\* the hash of the state equals it
retrieveState(value, kvGetOk) ==
  IF ~kvGetOk THEN [success |-> FALSE, data |-> << >>]
  ELSE IF value = << >> THEN [success |-> TRUE, data |-> << >>]
  ELSE LET parsed == value[1]
           currentHash == hashStatePayload(parsed.data)
       IN [success |-> TRUE,
           data |-> <<[state |-> parsed.data, hash |-> parsed.hash,
                       valid |-> (currentHash = parsed.hash)]>>]

\* SalesforceClient.syncState: the response is that of executeWithRetry around
\* an operation that awaits ensureAuthenticated() and then upsert(), whose
\* own response it does not inspect
syncState(authOk, upsertOk) == [success |-> authOk]

\* --------------------------------------------------------- sync engine
\* mutant: the later record wins only strictly, a tie goes to the remote
TimeGt(s, t) == s # 0 /\ t # 0 /\ s > t

\* new Date(s).getTime() >= new Date(t).getTime(), false when either is NaN
TimeGte(s, t) == s # 0 /\ t # 0 /\ s >= t

SyncedBoth == <<"cloudflare", "salesforce">>

\* mutant: 'manual' falls through to the case that keeps the local record
resolveConflictManualLocal(local, remote) ==
  CASE conflictResolution = "remote" ->
         [resolution |-> "remote",
          record |-> <<[remote EXCEPT !.syncedTo = SyncedBoth]>>]
    [] conflictResolution = "latest" /\ ~TimeGte(local.updatedAt, remote.updatedAt) ->
         [resolution |-> "remote",
          record |-> <<[remote EXCEPT !.syncedTo = SyncedBoth]>>]
    [] OTHER -> [resolution |-> "local", record |-> <<local>>]

\* resolveConflict(local, remote): the resolution and the record to store,
\* if any
resolveConflict(local, remote) ==
  CASE conflictResolution = "local" ->
         [resolution |-> "local", record |-> <<local>>]
    [] conflictResolution = "remote" ->
         [resolution |-> "remote",
          record |-> <<[remote EXCEPT !.syncedTo = SyncedBoth]>>]
    [] conflictResolution = "latest" ->
         IF TimeGte(local.updatedAt, remote.updatedAt)
         THEN [resolution |-> "local", record |-> <<local>>]
         ELSE [resolution |-> "remote",
               record |-> <<[remote EXCEPT !.syncedTo = SyncedBoth]>>]
    [] OTHER -> [resolution |-> "undefined", record |-> << >>]

\* mutant: the conflict is built after the map was written, from the record
\* the map then holds
ConflictAfterWrite(id, localRecord, remoteRecord, resolution) ==
  [recordId |-> id, field |-> "data",
   localValue |-> IF resolution = "remote" THEN remoteRecord.data ELSE localRecord.data,
   remoteValue |-> remoteRecord.data, resolution |-> resolution]

\* the StateConflict pullFromRemote pushes
Conflict(id, localRecord, remoteRecord, resolution) ==
  [recordId |-> id, field |-> "data", localValue |-> localRecord.data,
   remoteValue |-> remoteRecord.data, resolution |-> resolution]

\* mutant: the remote record is adopted with the syncedTo it carries
AdoptedAsIs(remoteRecord) == remoteRecord

\* { ...remoteRecord, syncedTo: ['cloudflare'] }: a remote record the map
\* does not hold, as it is stored
Adopted(remoteRecord) == [remoteRecord EXCEPT !.syncedTo = <<"cloudflare">>]

\* the loop of pullFromRemote over Object.entries(remoteState.records), from
\* the i-th id on; st holds the records map and the pull result so far
RECURSIVE MergeRemote(_, _, _)
MergeRemote(st, remote, i) ==
  IF i > Len(IdOrder) THEN st
  ELSE LET id == IdOrder[i] IN
    IF id \notin DOMAIN remote THEN MergeRemote(st, remote, i + 1)
    ELSE LET remoteRecord == remote[id] IN
      IF id \notin DOMAIN st.records
      THEN MergeRemote(
             [st EXCEPT
                !.records = (id :> Adopted(remoteRecord)) @@ st.records,
                !.synced = Append(st.synced, <<"cloudflare", id>>)],
             remote, i + 1)
      ELSE LET localRecord == st.records[id] IN
        IF remoteRecord.hash # localRecord.hash
        THEN LET resolution == resolveConflict(localRecord, remoteRecord)
                 st1 == [st EXCEPT !.conflicts =
                           Append(st.conflicts,
                                  Conflict(id, localRecord, remoteRecord,
                                           resolution.resolution))]
             IN IF resolution.record # << >>
                THEN MergeRemote(
                       [st1 EXCEPT
                          !.records = [st.records EXCEPT ![id] = resolution.record[1]],
                          !.synced = Append(st.synced, <<"cloudflare", id, "resolved">>)],
                       remote, i + 1)
                ELSE MergeRemote(st1, remote, i + 1)
        ELSE MergeRemote(st, remote, i + 1)

\* what pullFromRemote holds in kvResult, in a word
KvStatus(kvResult, thrown) ==
  IF thrown THEN "thrown"
  ELSE IF ~kvResult.success THEN "unsuccessful"
  ELSE IF kvResult.data = << >> THEN "absent"
  ELSE IF kvResult.data[1].valid THEN "valid" ELSE "invalid"

\* mutant: the block without the test of kvResult.data.valid
PullCloudflareUnchecked(recs, pull, kvResult, thrown) ==
  LET st == [records |-> recs, synced |-> pull.synced, failed |-> pull.failed,
             conflicts |-> pull.conflicts]
  IN IF thrown
     THEN [st EXCEPT !.failed = Append(st.failed, <<"cloudflare", "error">>)]
     ELSE IF kvResult.success /\ kvResult.data # << >>
          THEN MergeRemote(st, kvResult.data[1].state.records, 1)
          ELSE st

\* the Cloudflare block of pullFromRemote once retrieveState has settled:
\* kvResult is its response, thrown whether it rejected instead
PullCloudflare(recs, pull, kvResult, thrown) ==
  LET st == [records |-> recs, synced |-> pull.synced, failed |-> pull.failed,
             conflicts |-> pull.conflicts]
  IN IF thrown
     THEN [st EXCEPT !.failed = Append(st.failed, <<"cloudflare", "error">>)]
     ELSE IF kvResult.success /\ kvResult.data # << >> /\ kvResult.data[1].valid
          THEN MergeRemote(st, kvResult.data[1].state.records, 1)
          ELSE st

\* mutant: the loop stores every object, over the record the map holds
RECURSIVE MergeCRMKindOverwrites(_, _, _, _)
MergeCRMKindOverwrites(recs, kind, objects, i) ==
  IF i > Len(objects) THEN recs
  ELSE LET id == Get(objects[i], "Id").prim
           rid == kind \o "_" \o id
       IN MergeCRMKindOverwrites(
            (rid :> Record(rid, kind, objects[i], hashState(objects[i]), 1,
                           now, now, <<"salesforce">>)) @@ recs,
            kind, objects, i + 1)

\* one loop of mergeCRMState: the objects of a kind that the map does not hold
RECURSIVE MergeCRMKind(_, _, _, _)
MergeCRMKind(recs, kind, objects, i) ==
  IF i > Len(objects) THEN recs
  ELSE LET id == Get(objects[i], "Id").prim
           rid == kind \o "_" \o id
       IN IF rid \notin DOMAIN recs
          THEN MergeCRMKind(
                 (rid :> Record(rid, kind, objects[i], hashState(objects[i]), 1,
                                now, now, <<"salesforce">>)) @@ recs,
                 kind, objects, i + 1)
          ELSE MergeCRMKind(recs, kind, objects, i + 1)

\* mergeCRMState(crmState)
mergeCRMState(recs, crmState) ==
  MergeCRMKind(
    MergeCRMKind(
      MergeCRMKind(recs, "crm_account", crmState.accounts, 1),
      "crm_contact", crmState.contacts, 1),
    "crm_opportunity", crmState.opportunities, 1)

\* the options of a sync() call
SyncOptions(direction, force, includeTypes, excludeTypes) ==
  [direction |-> direction, force |-> force, includeTypes |-> includeTypes,
   excludeTypes |-> excludeTypes]
\* an absent list is << >>, a given one <<list>>
SyncOptionsSet ==
  {SyncOptions(d, FALSE, << >>, << >>) : d \in {"pull", "push", "bidirectional"}}
  \cup {SyncOptions("push", TRUE, << >>, << >>),
        SyncOptions("push", FALSE, <<{"deployment"}>>, <<{"crm_account"}>>)}

\* a record object has the syncedTo array of a StateRecord; importState()
\* stores what it is given, with or without it
HasSyncedTo(r) == "syncedTo" \in DOMAIN r

\* the filter of pushToRemote: the records that need syncing
NeedsSync(r, f) ==
  IF f.includeTypes # << >> /\ r.type \notin f.includeTypes[1] THEN FALSE
  ELSE IF f.excludeTypes # << >> /\ r.type \in f.excludeTypes[1] THEN FALSE
  ELSE f.force \/ Len(r.syncedTo) < 2

\* mutant: a conflict counts as a failure
ResultConflictsFail(f) ==
  [success |-> (Len(f.failed) = 0 /\ Len(f.conflicts) = 0), synced |-> f.synced,
   failed |-> f.failed, conflicts |-> f.conflicts]

\* the result sync() builds from the frame
Result(f) ==
  [success |-> (Len(f.failed) = 0), synced |-> f.synced, failed |-> f.failed,
   conflicts |-> f.conflicts]

\* mutant: the concurrent call is dropped with an empty, successful result
RejectionSilent ==
  [success |-> TRUE, synced |-> << >>, failed |-> << >>, conflicts |-> << >>]

\* what sync() returns while another invocation is in progress
Rejection ==
  [success |-> FALSE, synced |-> << >>, failed |-> <<<<"Sync already in progress">>>>,
   conflicts |-> << >>]

\* sync() rejecting with the TypeError of reading a property of undefined
Uncaught == [thrown |-> "TypeError"]

\* the filter of pushToRemote reads r.syncedTo.length of a record without
\* syncedTo: it does, without force, for a record that passes the type
\* filters
FilterThrows(f) ==
  /\ ~f.force
  /\ \E id \in DOMAIN records :
       /\ ~HasSyncedTo(records[id])
       /\ f.includeTypes # << >> => records[id].type \in f.includeTypes[1]
       /\ f.excludeTypes # << >> => records[id].type \notin f.excludeTypes[1]

\* mutant: sync() without its finally block
ThrowKeepsFlag(c) ==
  /\ syncInProgress' = syncInProgress
  /\ returned' = <<Uncaught>>
  /\ frames' = [frames EXCEPT ![c] = IdleFrame]
  /\ UNCHANGED <<records, hash, lastSync>>

\* an exception leaves sync() through its finally block: the flag is
\* cleared, lastSync is not written, the promise rejects
Throw(c) ==
  /\ syncInProgress' = FALSE
  /\ returned' = <<Uncaught>>
  /\ frames' = [frames EXCEPT ![c] = IdleFrame]
  /\ UNCHANGED <<records, hash, lastSync>>

\* the end of sync(): success, lastSync, the finally block and the return
Finish(c, f) ==
  /\ lastSync' = now
  /\ syncInProgress' = FALSE
  /\ returned' = <<Result(f)>>
  /\ frames' = [frames EXCEPT ![c] = IdleFrame]

\* pushToRemote after its Cloudflare block: the Salesforce block is entered,
\* or the push result returned
PushSalesforce(c, f, recs) ==
  IF salesforce
  THEN frames' = [frames EXCEPT ![c] =
         [f EXCEPT !.pc = "push_sf",
                   !.payload = <<Payload(recs, lastSync, hash)>>]]
  ELSE frames' = [frames EXCEPT ![c] = [f EXCEPT !.pc = "push_ret", !.payload = << >>]]

\* the start of pushToRemote, up to its first await
StartPush(c, f) ==
  LET selected == {id \in DOMAIN records : NeedsSync(records[id], f)}
      f1 == [f EXCEPT !.recordsToSync = selected, !.held = selected,
                      !.broken = {id \in selected : ~HasSyncedTo(records[id])}]
  IN /\ UNCHANGED <<records, hash>>
     /\ IF cloudflare
        THEN frames' = [frames EXCEPT ![c] =
               [f1 EXCEPT !.pc = "push_cf",
                          !.payload = <<Payload(records, lastSync, hash)>>]]
        ELSE PushSalesforce(c, f1, records)

\* mutant: a failure of the Cloudflare block ends the pull
PullSalesforceUnlessFailed(c, f, st) ==
  LET f1 == [f EXCEPT !.pull = [synced |-> st.synced, failed |-> st.failed,
                                conflicts |-> st.conflicts]]
      fs == Release(frames, Replaced(records, st.records))
  IN /\ records' = st.records
     /\ IF salesforce /\ st.failed = << >>
        THEN /\ frames' = [fs EXCEPT ![c] = [f1 EXCEPT !.pc = "pull_sf"]]
             /\ hash' = hash
        ELSE /\ frames' = [fs EXCEPT ![c] = [f1 EXCEPT !.pc = "pull_ret"]]
             /\ hash' = updateLocalHash(st.records, lastSync)

\* pullFromRemote after its Cloudflare block, st being the map and the pull
\* result it left: the Salesforce block is entered, or the hash updated and
\* the pull result returned
PullSalesforce(c, f, st) ==
  LET f1 == [f EXCEPT !.pull = [synced |-> st.synced, failed |-> st.failed,
                                conflicts |-> st.conflicts]]
      fs == Release(frames, Replaced(records, st.records))
  IN /\ records' = st.records
     /\ IF salesforce
        THEN /\ frames' = [fs EXCEPT ![c] = [f1 EXCEPT !.pc = "pull_sf"]]
             /\ hash' = hash
        ELSE /\ frames' = [fs EXCEPT ![c] = [f1 EXCEPT !.pc = "pull_ret"]]
             /\ hash' = updateLocalHash(st.records, lastSync)

\* the start of pullFromRemote, up to its first await
StartPull(c, f) ==
  IF cloudflare
     THEN /\ frames' = [frames EXCEPT ![c] = [f EXCEPT !.pc = "pull_cf"]]
          /\ UNCHANGED <<records, hash>>
     ELSE PullSalesforce(c, f, [records |-> records, synced |-> << >>,
                                failed |-> << >>, conflicts |-> << >>])

\* the frame a call takes: the first idle one
FreeFrame(c) ==
  /\ frames[c].pc = "idle"
  /\ \A d \in CallIds : d < c => frames[d].pc # "idle"

\* sync(options) past its guard, up to its first await
SyncAccepted(options) ==
  \E c \in CallIds :
    /\ FreeFrame(c)
    /\ LET f == [IdleFrame EXCEPT !.direction = options.direction,
                                  !.force = options.force,
                                  !.includeTypes = options.includeTypes,
                                  !.excludeTypes = options.excludeTypes]
       IN IF options.direction # "push"
          THEN StartPull(c, f) /\ syncInProgress' = TRUE /\ NoReturn /\ UNCHANGED lastSync
          ELSE IF FilterThrows(f)
          THEN Throw(c)
          ELSE StartPush(c, f) /\ syncInProgress' = TRUE /\ NoReturn /\ UNCHANGED lastSync

\* mutant: sync() without its guard
syncUnguarded(options) == SyncAccepted(options)

\* mutant: the guard's return inside the try block, so that the finally
\* block clears the flag of the invocation in flight
syncRejectClears(options) ==
  IF syncInProgress
  THEN /\ returned' = <<Rejection>>
       /\ syncInProgress' = FALSE
       /\ UNCHANGED <<records, lastSync, hash, frames>>
  ELSE SyncAccepted(options)

\* sync(options), up to its return or its first await
sync(options) ==
  IF syncInProgress
  THEN /\ returned' = <<Rejection>>
       /\ UNCHANGED <<records, lastSync, hash, syncInProgress, frames>>
  ELSE SyncAccepted(options)

\* the rest of the state, which no step of sync() touches
Surroundings == <<syncTimer, conflictResolution, cloudflare, salesforce, now, calc>>

\* a call of sync(options) by the application
Sync(options) ==
  /\ sync(options)
  /\ UNCHANGED <<Surroundings, kv, acked>>

\* mutant: startAutoSync() without the test of the timer
StartAutoSyncAgain ==
  /\ syncTimer' = TRUE
  /\ SetInterval
  /\ sync(SyncOptions("pull", FALSE, << >>, << >>))
  /\ UNCHANGED <<conflictResolution, cloudflare, salesforce, now, kv, calc>>

\* startAutoSync(): no-op with a timer set; else the timer and an initial pull
StartAutoSync ==
  IF syncTimer
  THEN /\ NoReturn
       /\ UNCHANGED <<records, lastSync, hash, syncInProgress, syncTimer,
                      conflictResolution, cloudflare, salesforce, now, kv,
                      frames, acked, calc>>
  ELSE /\ syncTimer' = TRUE
       /\ SetInterval
       /\ sync(SyncOptions("pull", FALSE, << >>, << >>))
       /\ UNCHANGED <<conflictResolution, cloudflare, salesforce, now, kv, calc>>

\* stopAutoSync()
StopAutoSync ==
  /\ syncTimer' = FALSE
  /\ IF syncTimer THEN ClearInterval ELSE UNCHANGED acked
  /\ UNCHANGED <<records, lastSync, hash, syncInProgress, conflictResolution,
                 cloudflare, salesforce, now, kv, frames, calc>>
  /\ NoReturn

\* the interval callback
TimerTick ==
  /\ IntervalLive
  /\ sync(SyncOptions("bidirectional", FALSE, << >>, << >>))
  /\ UNCHANGED <<Surroundings, kv, acked>>

\* the ways an adapter call settles
Outcomes == {"ok", "fail", "throw"}

\* await this.cloudflare.retrieveState(...) settles with outcome o; the
\* merge runs
CfRetrieveSettles(c, o) ==
  /\ frames[c].pc = "pull_cf"
  /\ LET kvResult == retrieveState(kv, o = "ok") IN
       /\ Fault(o # "ok")
       /\ PullSalesforce(c, [frames[c] EXCEPT !.kvResult = KvStatus(kvResult, o = "throw")],
                         PullCloudflare(records, frames[c].pull, kvResult, o = "throw"))
       /\ Ack(IF KvStatus(kvResult, o = "throw") = "valid"
              THEN Copies("cloudflare", kvResult.data[1].state.records) ELSE {})
  /\ NoReturn
  /\ UNCHANGED <<lastSync, syncInProgress, Surroundings, kv>>

\* await this.cloudflare.retrieveState(...) settles
CfRetrieveReturn(c) == \E o \in Outcomes : CfRetrieveSettles(c, o)

\* await this.salesforce.getCRMState() settles with outcome o, crmState being
\* what Salesforce holds; the CRM merge runs, the hash is updated and
\* pullFromRemote returns
SfCrmSettles(c, o, crmState) ==
  /\ frames[c].pc = "pull_sf"
  /\ LET f == frames[c]
         recs == IF o = "ok" THEN mergeCRMState(records, crmState) ELSE records
         pull == [f.pull EXCEPT
                    !.synced = IF o = "ok"
                               THEN Append(@, <<"salesforce", "crm_state">>) ELSE @,
                    !.failed = IF o = "throw"
                               THEN Append(@, <<"salesforce", "error">>) ELSE @]
     IN /\ Fault(o # "ok")
        /\ records' = recs
        /\ hash' = updateLocalHash(recs, lastSync)
        /\ Ack(IF o = "ok" THEN Copies("salesforce", mergeCRMState(<< >>, crmState))
               ELSE {})
        /\ frames' = [Release(frames, Replaced(records, recs))
                        EXCEPT ![c] = [f EXCEPT !.pc = "pull_ret", !.pull = pull]]
  /\ NoReturn
  /\ UNCHANGED <<lastSync, syncInProgress, Surroundings, kv>>

\* await this.salesforce.getCRMState() settles
SfCrmReturn(c) ==
  \E o \in Outcomes, crmState \in CRMStates : SfCrmSettles(c, o, crmState)

\* mutant: sync() pushes after a pull whatever the direction
PullReturnAlwaysPushes(c) ==
  /\ frames[c].pc = "pull_ret"
  /\ LET f == [frames[c] EXCEPT !.synced = @ \o frames[c].pull.synced,
                                !.failed = @ \o frames[c].pull.failed,
                                !.conflicts = @ \o frames[c].pull.conflicts]
     IN IF FilterThrows(f)
        THEN Throw(c)
        ELSE /\ StartPush(c, f)
             /\ NoReturn
             /\ UNCHANGED <<lastSync, syncInProgress>>
  /\ UNCHANGED <<Surroundings, kv, acked>>

\* await this.pullFromRemote(options) resumes in sync(): the pull result is
\* appended, then the push starts or sync() ends
PullReturn(c) ==
  /\ frames[c].pc = "pull_ret"
  /\ LET f == [frames[c] EXCEPT !.synced = @ \o frames[c].pull.synced,
                                !.failed = @ \o frames[c].pull.failed,
                                !.conflicts = @ \o frames[c].pull.conflicts]
     IN IF f.direction = "bidirectional"
        THEN IF FilterThrows(f)
             THEN Throw(c)
             ELSE /\ StartPush(c, f)
                  /\ NoReturn
                  /\ UNCHANGED <<lastSync, syncInProgress>>
        ELSE /\ Finish(c, f)
             /\ UNCHANGED <<records, hash>>
  /\ UNCHANGED <<Surroundings, kv, acked>>

\* mutant: the push writes the records it read before its await back into
\* the map
MarkSyncedFromSnapshot(recs, held, store) ==
  LET taken == {c \in CallIds : frames[c].payload # << >>}
      old == IF taken = {} THEN recs
             ELSE frames[CHOOSE c \in taken : TRUE].payload[1].records
  IN [id \in DOMAIN recs |->
        LET r == IF id \in DOMAIN old THEN old[id] ELSE recs[id]
        IN IF \A i \in DOMAIN r.syncedTo : r.syncedTo[i] # store
           THEN [r EXCEPT !.syncedTo = Append(@, store)]
           ELSE r]

\* record.syncedTo.push(store) for the record objects pushToRemote selected;
\* an object the map no longer holds is out of reach
MarkSynced(recs, held, store) ==
  [id \in DOMAIN recs |->
     IF /\ id \in held
        /\ \A i \in DOMAIN recs[id].syncedTo : recs[id].syncedTo[i] # store
     THEN [recs[id] EXCEPT !.syncedTo = Append(@, store)]
     ELSE recs[id]]

\* result.synced.push(`${store}:${record.id}`) for the selected records
RECURSIVE SyncedEntries(_, _, _)
SyncedEntries(recordsToSync, store, i) ==
  IF i > Len(IdOrder) THEN << >>
  ELSE (IF IdOrder[i] \in recordsToSync
        THEN <<<<store, IdOrder[i]>>>> ELSE << >>)
       \o SyncedEntries(recordsToSync, store, i + 1)

\* the selected records the marking loop gets through: it runs in the order
\* of the map and ends, in the catch block, at the first record object
\* without syncedTo
Position(id) == CHOOSE i \in DOMAIN IdOrder : IdOrder[i] = id
Reached(f) ==
  {id \in f.recordsToSync : \A b \in f.broken : Position(id) < Position(b)}

\* the push result after an adapter's block: the adapter answered with
\* success or not, or thrown, the call rejected
Pushed(f, store, success, thrown) ==
  [f EXCEPT !.push.synced = IF success
                            THEN @ \o SyncedEntries(Reached(f), store, 1) ELSE @,
            !.push.failed = IF thrown \/ (success /\ f.broken # {})
                            THEN Append(@, <<store, "error">>) ELSE @]

\* await this.cloudflare.storeState(...) settles with outcome o
CfStoreSettles(c, o) ==
  /\ frames[c].pc = "push_cf"
  /\ LET f == frames[c]
         recs == IF o = "ok"
                 THEN MarkSynced(records, f.held \cap Reached(f), "cloudflare")
                 ELSE records
     IN /\ Fault(o # "ok")
        /\ kv' = IF o = "ok" THEN <<Blob(f.payload[1])>> ELSE kv
        /\ records' = recs
        /\ PushSalesforce(c, Pushed(f, "cloudflare", o = "ok", o = "throw"), recs)
        /\ Ack(IF o = "ok" THEN Copies("cloudflare", f.payload[1].records) ELSE {})
  /\ NoReturn
  /\ UNCHANGED <<hash, lastSync, syncInProgress, Surroundings>>

\* await this.cloudflare.storeState(...) settles
CfStoreReturn(c) == \E o \in Outcomes : CfStoreSettles(c, o)

\* await this.salesforce.syncState(...) settles: authOk and upsertOk are how
\* ensureAuthenticated() and upsert() went, thrown a rejection
SfSyncSettles(c, authOk, upsertOk, thrown) ==
  /\ frames[c].pc = "push_sf"
  /\ LET f == frames[c]
         sfResult == syncState(authOk, upsertOk)
         success == ~thrown /\ sfResult.success
         recs == IF success
                 THEN MarkSynced(records, f.held \cap Reached(f), "salesforce")
                 ELSE records
     IN /\ thrown => (~authOk /\ ~upsertOk)
        /\ Fault(~authOk \/ ~upsertOk)
        /\ records' = recs
        /\ frames' = [frames EXCEPT ![c] =
             [Pushed(f, "salesforce", success, thrown)
                EXCEPT !.pc = "push_ret", !.payload = << >>]]
        /\ Ack(IF success THEN Copies("salesforce", f.payload[1].records) ELSE {})
  /\ NoReturn
  /\ UNCHANGED <<hash, lastSync, syncInProgress, Surroundings, kv>>

\* await this.salesforce.syncState(...) settles
SfSyncReturn(c) ==
  \E authOk \in BOOLEAN, upsertOk \in BOOLEAN, thrown \in BOOLEAN :
    SfSyncSettles(c, authOk, upsertOk, thrown)

\* await this.pushToRemote(options) resumes in sync(), which ends
PushReturn(c) ==
  /\ frames[c].pc = "push_ret"
  /\ Finish(c, [frames[c] EXCEPT !.synced = @ \o frames[c].push.synced,
                                 !.failed = @ \o frames[c].push.failed])
  /\ UNCHANGED <<records, hash, Surroundings, kv, acked>>

Next ==
  \/ Issue /\ \E t \in {"deployment"} : Create(t, DataA)
  \/ Issue /\ \E id \in LocalIds, d \in PartialSet : Update(id, d)
  \/ Issue /\ \E id \in LocalIds : Delete(id)
  \/ Issue /\ \E o \in SyncOptionsSet : Sync(o)
  \/ Issue /\ RemoteWrite
  \/ Issue /\ Tick
  \/ \E c \in CallIds : CfRetrieveReturn(c)
  \/ \E c \in CallIds : SfCrmReturn(c)
  \/ UNCHANGED ops /\ \E c \in CallIds : PullReturn(c)
  \/ \E c \in CallIds : CfStoreReturn(c)
  \/ \E c \in CallIds : SfSyncReturn(c)
  \/ UNCHANGED ops /\ \E c \in CallIds : PushReturn(c)

Spec == Init /\ [][Next]_vars

\* ------------------------------------------------------- utils/hash.ts
\* the state objects hashState() is applied to: flat ones, the same mapping
\* built in two orders, and ones with an object-valued field whose inner key
\* is or is not also a key of the outer object
HashInputs ==
  {DataA, DataB,
   <<[k |-> "app", v |-> Prim("x")], [k |-> "env", v |-> Prim("s")]>>,
   <<[k |-> "env", v |-> Prim("s")], [k |-> "app", v |-> Prim("x")]>>,
   DataNested,
   <<[k |-> "app", v |-> Prim("x")],
     [k |-> "meta", v |-> Obj(<<[k |-> "a", v |-> Prim("2")]>>)]>>,
   <<[k |-> "app", v |-> Prim("x")],
     [k |-> "meta", v |-> Obj(<<[k |-> "app", v |-> Prim("1")]>>)]>>,
   <<[k |-> "app", v |-> Prim("x")],
     [k |-> "meta", v |-> Obj(<<[k |-> "app", v |-> Prim("2")]>>)]>>,
   <<[k |-> "app", v |-> Prim("x")], [k |-> "env", v |-> Prim("s")],
     [k |-> "meta", v |-> Obj(<<[k |-> "app", v |-> Prim("1")],
                                [k |-> "env", v |-> Prim("2")]>>)]>>,
   <<[k |-> "meta", v |-> Obj(<<[k |-> "env", v |-> Prim("2")],
                                [k |-> "app", v |-> Prim("1")]>>)],
     [k |-> "env", v |-> Prim("s")], [k |-> "app", v |-> Prim("x")]>>}

\* two state objects are given
InitHash ==
  /\ InitStore
  /\ acked = [on |-> FALSE, set |-> {}]
  /\ calc \in {[args |-> <<d1, d2>>, value |-> << >>] : d1, d2 \in HashInputs}

\* hashState() is applied to each
EvalHashState ==
  /\ calc.args # << >> /\ calc.value = << >>
  /\ calc' = [calc EXCEPT !.value = <<hashState(calc.args[1]), hashState(calc.args[2])>>]
  /\ UNCHANGED <<records, lastSync, hash, syncInProgress, syncTimer, conflictResolution,
                 cloudflare, salesforce, now, kv, frames, ops, returned, acked>>

NextHash == EvalHashState

SpecHash == InitHash /\ [][NextHash]_vars

\* ------------------------------------------------- hash() and verify()
\* DEFAULT_OPTIONS.iterations
DefaultIterations == 100000
\* SHA_INFINITY_ROUNDS
ShaInfinityRounds == 7
\* SHA_INFINITY_ALGORITHMS
ShaInfinityAlgorithms == <<"sha256", "sha384", "sha512">>

\* the digest names createHash() accepts; for any other it throws
Digests == {"sha256", "sha384", "sha512", "md5"}

\* createHash(algorithm).update(data).digest('hex'), injective
createHash(algorithm, data) ==
  IF algorithm = "sha256" THEN Sha256(data)
  ELSE <<algorithm \o "(">> \o data \o <<")">>

\* for (i = 0; i < iterations; i++) result = createHash(algorithm)
\* .update(result).digest('hex'): the digest applied iterations times, taken
\* as injective and as different for different counts; not once for a count
\* of 0 or less
Iterated(algorithm, data, iterations) ==
  IF iterations <= 0 THEN data
  ELSE <<algorithm \o "^" \o ToString(iterations) \o "(">> \o data \o <<")">>

\* Buffer.from(hex, 'hex').toString(encoding): the same bytes written in
\* another alphabet, a different string of a different length
Encoded(hex, encoding) ==
  IF encoding = "hex" THEN hex ELSE <<encoding \o "[">> \o hex \o <<"]">>

\* Math.floor(baseIterations * Math.pow(1.5, round))
RECURSIVE Power(_, _)
Power(b, n) == IF n = 0 THEN 1 ELSE b * Power(b, n - 1)
RoundIterations(baseIterations, round) ==
  (baseIterations * Power(3, round)) \div Power(2, round)

\* mixHashes(hash1, hash2, algorithm)
mixHashes(hash1, hash2, algorithm) ==
  createHash(algorithm, hash1 \o <<":">> \o hash2)

\* the rounds of shaInfinity() from round on, result being what the rounds
\* before left
RECURSIVE ShaInfinityRound(_, _, _, _)
ShaInfinityRound(result, salt, baseIterations, round) ==
  IF round >= ShaInfinityRounds THEN result
  ELSE LET algorithm == ShaInfinityAlgorithms[(round % Len(ShaInfinityAlgorithms)) + 1]
           roundSalt == Sha256(salt \o <<":round:", ToString(round), ":">>
                               \o SubSeq(result, 1, Min(16, Len(result))))
           roundResult == Iterated(algorithm, result \o <<":">> \o roundSalt,
                                   RoundIterations(baseIterations, round))
       IN ShaInfinityRound(mixHashes(result, roundResult, algorithm), salt,
                           baseIterations, round + 1)

\* shaInfinity(data, baseSalt, baseIterations, encoding); the salt hash()
\* passes is never ''
shaInfinity(data, baseSalt, baseIterations, encoding) ==
  Encoded(createHash("sha512", ShaInfinityRound(data, baseSalt, baseIterations, 0)),
          encoding)

\* the options of hash(): an absent property is << >>
OptionOr(options, name, default) ==
  IF options[name] = << >> THEN default ELSE options[name][1]

\* what a call that throws leaves
Thrown(message) == [thrown |-> message]

\* hash(data, options), fresh being what generateSalt(32) would return
Hash(data, options, fresh) ==
  LET algorithm == OptionOr(options, "algorithm", "sha256")
      iterations == OptionOr(options, "iterations", DefaultIterations)
      given == OptionOr(options, "salt", << >>)
      encoding == OptionOr(options, "encoding", "hex")
      salt == IF given # << >> THEN given ELSE fresh
  IN IF algorithm = "sha_infinity"
     THEN [hash |-> shaInfinity(data, salt, iterations, encoding),
           algorithm |-> algorithm, iterations |-> iterations, salt |-> salt,
           timestamp |-> now]
     ELSE IF iterations > 0 /\ algorithm \notin Digests
          THEN Thrown("Digest method not supported")
          ELSE [hash |-> Encoded(Iterated(algorithm, data \o <<":">> \o salt,
                                          iterations), encoding),
                algorithm |-> algorithm, iterations |-> iterations, salt |-> salt,
                timestamp |-> now]

\* timingSafeCompare(a, b)
timingSafeCompare(a, b) == IF Len(a) # Len(b) THEN FALSE ELSE a = b

\* mutant: verify() recomputes without the salt of the HashResult
verifyFreshSalt(data, hashResult, fresh) ==
  LET recomputed == Hash(data, [algorithm |-> <<hashResult.algorithm>>,
                                iterations |-> <<hashResult.iterations>>,
                                salt |-> << >>,
                                encoding |-> <<"hex">>], <<"other">>)
  IN [valid |-> timingSafeCompare(recomputed.hash, hashResult.hash),
      hash |-> hashResult, input |-> data]

\* verify(data, hashResult)
verify(data, hashResult, fresh) ==
  LET recomputed == Hash(data, [algorithm |-> <<hashResult.algorithm>>,
                                iterations |-> <<hashResult.iterations>>,
                                salt |-> <<hashResult.salt>>,
                                encoding |-> <<"hex">>], fresh)
  IN [valid |-> timingSafeCompare(recomputed.hash, hashResult.hash),
      hash |-> hashResult, input |-> data]

\* the salts generateSalt(32) may return
FreshSalts == {<<"9f">>, <<"c4">>}

\* the options hash() is given: each property absent or given, the
\* algorithm one of HashOptions or another name
HashOptionsSet ==
  [algorithm : {<< >>, <<"sha256">>, <<"sha384">>, <<"sha512">>, <<"sha_infinity">>,
                <<"md5">>, <<"sha999">>},
   iterations : {<< >>} \cup {<<n>> : n \in 0..MaxIterations},
   salt : {<< >>, <<<< >>>>, <<<<"pepper">>>>},
   encoding : {<< >>, <<"hex">>, <<"base64">>, <<"base64url">>}]

\* a data string and options are given
InitVerify ==
  /\ InitStore
  /\ acked = [on |-> FALSE, set |-> {}]
  /\ calc \in {[args |-> <<d, o>>, value |-> << >>] :
                 d \in {<<"a">>, <<"b">>}, o \in HashOptionsSet}

\* hash(data, options) is called
EvalHash ==
  /\ Len(calc.args) = 2 /\ calc.value = << >>
  /\ \E fresh \in FreshSalts :
       calc' = [calc EXCEPT !.value = <<Hash(calc.args[1], calc.args[2], fresh)>>]
  /\ UNCHANGED <<records, lastSync, hash, syncInProgress, syncTimer, conflictResolution,
                 cloudflare, salesforce, now, kv, frames, ops, returned, acked>>

\* verify(data, hashResult) is called with the HashResult hash() returned
EvalVerify ==
  /\ Len(calc.value) = 1 /\ "thrown" \notin DOMAIN calc.value[1]
  /\ \E fresh \in FreshSalts :
       calc' = [calc EXCEPT !.value = Append(@, verify(calc.args[1], calc.value[1], fresh))]
  /\ UNCHANGED <<records, lastSync, hash, syncInProgress, syncTimer, conflictResolution,
                 cloudflare, salesforce, now, kv, frames, ops, returned, acked>>

NextVerify == EvalHash \/ EvalVerify

SpecVerify == InitVerify /\ [][NextVerify]_vars

\* ---------------------------------------------------------- merkleRoot()
\* mutant: the loop of merkleRoot() pairs the last hash of an odd level with
\* nothing
RECURSIVE NextLevelNoDuplicate(_, _)
NextLevelNoDuplicate(hashes, i) ==
  IF i > Len(hashes) THEN << >>
  ELSE LET left == hashes[i]
           right == IF i + 1 <= Len(hashes) THEN hashes[i + 1] ELSE << >>
       IN <<Sha256(left \o <<":">> \o right)>> \o NextLevelNoDuplicate(hashes, i + 2)

\* the loop of merkleRoot() from index i on (indices from 1)
RECURSIVE NextLevel(_, _)
NextLevel(hashes, i) ==
  IF i > Len(hashes) THEN << >>
  ELSE LET left == hashes[i]
           right == IF i + 1 <= Len(hashes) THEN hashes[i + 1] ELSE left
       IN <<Sha256(left \o <<":">> \o right)>> \o NextLevel(hashes, i + 2)

\* merkleRoot(hashes)
RECURSIVE merkleRoot(_)
merkleRoot(hashes) ==
  IF Len(hashes) = 0 THEN Sha256(<<"empty">>)
  ELSE IF Len(hashes) = 1 THEN hashes[1]
  ELSE merkleRoot(NextLevel(hashes, 1))

\* the hashes merkleRoot() is given: fingerprints of three contents
Leaves == {Sha256(<<"a">>), Sha256(<<"b">>), Sha256(<<"c">>)}
LeafLists == UNION {[1..n -> Leaves] : n \in 0..MaxLeaves}

\* a list of hashes is given
InitMerkle ==
  /\ InitStore
  /\ acked = [on |-> FALSE, set |-> {}]
  /\ calc \in {[args |-> <<hs>>, value |-> << >>] : hs \in LeafLists}

\* merkleRoot() is applied
EvalMerkle ==
  /\ Len(calc.args) = 1 /\ calc.value = << >>
  /\ calc' = [calc EXCEPT !.value = <<merkleRoot(calc.args[1])>>]
  /\ UNCHANGED <<records, lastSync, hash, syncInProgress, syncTimer, conflictResolution,
                 cloudflare, salesforce, now, kv, frames, ops, returned, acked>>

NextMerkle == EvalMerkle

SpecMerkle == InitMerkle /\ [][NextMerkle]_vars

\* ------------------------------------------------------------- query()
\* the stores query() is applied to
QueryStores ==
  {<< >>,
   [id \in Ids |->
      IF id = "r1" THEN Record(id, "deployment", DataA, hashState(DataA), 1, 1, 1, << >>)
      ELSE IF id = "r2" THEN Record(id, "config", DataA, hashState(DataA), 1, 1, 1, << >>)
      ELSE Record(id, "deployment", DataB, hashState(DataB), 1, 1, 1, << >>)],
   [id \in Ids |->
      IF id = "r1" THEN Record(id, "deployment", DataA, hashState(DataA), 1, 1, 1, << >>)
      ELSE IF id = "r2" THEN Record(id, "deployment", DataA, hashState(DataA), 2, 1, 1, << >>)
      ELSE Record(id, "config", DataB, hashState(DataB), 1, 1, 1, << >>)]}

\* the filters: each property absent or given
QueryFilters ==
  [type : {<< >>, <<"deployment">>, <<"config">>, <<"">>},
   dataFilter : {<< >>, <<[k |-> "app", v |-> Prim("x")]>>,
                 <<[k |-> "app", v |-> Prim("y")]>>},
   offset : {<< >>} \cup {<<n>> : n \in 0..MaxSlice},
   limit : {<< >>} \cup {<<n>> : n \in 0..MaxSlice}]

\* a store and a filter are given
InitQuery ==
  /\ records \in QueryStores
  /\ lastSync = 0
  /\ hash = updateLocalHash(records, lastSync)
  /\ syncInProgress = FALSE
  /\ syncTimer = FALSE
  /\ conflictResolution = "latest"
  /\ cloudflare = FALSE
  /\ salesforce = FALSE
  /\ now = 1
  /\ kv = << >>
  /\ frames = [c \in CallIds |-> IdleFrame]
  /\ ops = 0
  /\ returned = << >>
  /\ acked = [on |-> FALSE, set |-> {}]
  /\ calc \in {[args |-> <<f>>, value |-> << >>] : f \in QueryFilters}

\* query() is applied
EvalQuery ==
  /\ calc.args # << >> /\ calc.value = << >>
  /\ calc' = [calc EXCEPT !.value = <<query(calc.args[1])>>]
  /\ UNCHANGED <<records, lastSync, hash, syncInProgress, syncTimer, conflictResolution,
                 cloudflare, salesforce, now, kv, frames, ops, returned, acked>>

NextQuery == EvalQuery

SpecQuery == InitQuery /\ [][NextQuery]_vars

\* the record store alone, under the application's calls
NextStore ==
  \/ Issue /\ \E t \in {"deployment"}, d \in {DataA, DataNested} : Create(t, d)
  \/ Issue /\ \E id \in Ids, d \in PartialWide : Update(id, d)
  \/ Issue /\ \E id \in Ids : Delete(id)
  \/ Issue /\ \E state \in ImportStates : ImportState(state)
  \/ Issue /\ Tick
  \/ Issue /\ ExportState
  \/ Issue /\ ImportExported
  \/ Issue /\ Clear

SpecStore == Init /\ [][NextStore]_vars

\* the engine over a store that importState() fills
NextImport ==
  \/ Issue /\ \E t \in {"deployment"} : Create(t, DataA)
  \/ Issue /\ \E id \in LocalIds, d \in PartialSet : Update(id, d)
  \/ Issue /\ \E id \in LocalIds : Delete(id)
  \/ Issue /\ \E state \in ImportStates : ImportState(state)
  \/ Issue /\ \E o \in SyncOptionsSet : Sync(o)
  \/ \E c \in CallIds : CfRetrieveReturn(c)
  \/ \E c \in CallIds : SfCrmReturn(c)
  \/ UNCHANGED ops /\ \E c \in CallIds : PullReturn(c)
  \/ \E c \in CallIds : CfStoreReturn(c)
  \/ \E c \in CallIds : SfSyncReturn(c)
  \/ UNCHANGED ops /\ \E c \in CallIds : PushReturn(c)

SpecImport == Init /\ [][NextImport]_vars

\* a step of an invocation in flight: an adapter call settles, or a phase
\* returns into sync()
Settle ==
  \E c \in CallIds :
    \/ CfRetrieveSettles(c, "ok")
    \/ \E crmState \in CRMStates : SfCrmSettles(c, "ok", crmState)
    \/ UNCHANGED ops /\ PullReturn(c)
    \/ CfStoreSettles(c, "ok")
    \/ SfSyncSettles(c, TRUE, TRUE, FALSE)
    \/ UNCHANGED ops /\ PushReturn(c)

\* the engine under importState and sync, every adapter call settling in
\* the end
NextSettle ==
  \/ Issue /\ \E state \in ImportStates : ImportState(state)
  \/ Issue /\ \E o \in SyncOptionsSet : Sync(o)
  \/ \E c \in CallIds : CfRetrieveReturn(c)
  \/ \E c \in CallIds : SfCrmReturn(c)
  \/ UNCHANGED ops /\ \E c \in CallIds : PullReturn(c)
  \/ \E c \in CallIds : CfStoreReturn(c)
  \/ \E c \in CallIds : SfSyncReturn(c)
  \/ UNCHANGED ops /\ \E c \in CallIds : PushReturn(c)

SpecSettle == Init /\ [][NextSettle]_vars /\ WF_vars(Settle)

\* ------------------------------------------------- the Salesforce pull
\* what getCRMState() may find over time: an account under one name or
\* another, a contact, an opportunity
CRMObject(id, name) == <<[k |-> "Id", v |-> Prim(id)], [k |-> "Name", v |-> Prim(name)]>>
CRMStatesWide ==
  [accounts : {<< >>, <<CRMObject("A1", "n1")>>, <<CRMObject("A1", "n2")>>},
   contacts : {<< >>, <<CRMObject("C1", "n1")>>},
   opportunities : {<< >>, <<CRMObject("O1", "n1")>>}]

\* an engine with Salesforce alone, what Salesforce reported recorded
InitCRM == InitAck /\ ~cloudflare /\ salesforce

\* pulls from a CRM that changes between them
NextCRM ==
  \/ Issue /\ Sync(SyncOptions("pull", FALSE, << >>, << >>))
  \/ Issue /\ \E id \in Ids, d \in PartialSet : Update(id, d)
  \/ Issue /\ Tick
  \/ \E c \in CallIds, o \in Outcomes, crmState \in CRMStatesWide :
       SfCrmSettles(c, o, crmState)
  \/ UNCHANGED ops /\ \E c \in CallIds : PullReturn(c)

SpecCRM == InitCRM /\ [][NextCRM]_vars

\* ------------------------------------------------- executeWithRetry()
\* the retry policy of the constructor
DefaultRetries == 3
baseDelayMs == 1000
maxDelayMs == 30000
exponentialBase == 2

\* String.prototype.includes
Includes(s, pattern) ==
  \E i \in 1..(Len(s) - Len(pattern) + 1) : SubSeq(s, i, i + Len(pattern) - 1) = pattern

\* String.prototype.toLowerCase
UpperCase == "ABCDEFGHIJKLMNOPQRSTUVWXYZ"
LowerCase == "abcdefghijklmnopqrstuvwxyz"
LowerChar(ch) ==
  IF Includes(UpperCase, ch)
  THEN LET i == CHOOSE j \in 1..Len(UpperCase) : SubSeq(UpperCase, j, j) = ch
       IN SubSeq(LowerCase, i, i)
  ELSE ch
RECURSIVE toLowerCase(_)
toLowerCase(s) ==
  IF s = "" THEN ""
  ELSE LowerChar(SubSeq(s, 1, 1)) \o toLowerCase(SubSeq(s, 2, Len(s)))

\* isRetryableError(error), of the error's message
retryablePatterns ==
  {"timeout", "econnreset", "econnrefused", "socket hang up", "network",
   "429", "502", "503", "504", "rate limit", "throttl"}
isRetryableError(message) ==
  LET lower == toLowerCase(message)
  IN \E pattern \in retryablePatterns : Includes(lower, pattern)

\* extractErrorCode(error): the first three digits in a row, or a known code
IsDigit(ch) == Includes("0123456789", ch)
extractErrorCode(message) ==
  LET starts == {i \in 1..(Len(message) - 2) :
                   \A j \in i..(i + 2) : IsDigit(SubSeq(message, j, j))}
  IN IF starts # {}
     THEN LET i == CHOOSE k \in starts : \A l \in starts : k <= l
          IN "HTTP_" \o SubSeq(message, i, i + 2)
     ELSE IF Includes(message, "ECONNREFUSED") THEN "CONNECTION_REFUSED"
     ELSE IF Includes(message, "ETIMEDOUT") THEN "TIMEOUT"
     ELSE IF Includes(message, "ENOTFOUND") THEN "DNS_NOT_FOUND"
     ELSE "UNKNOWN_ERROR"

\* parseError(error)
parseError(message) ==
  [code |-> extractErrorCode(message), message |-> message,
   retryable |-> isRetryableError(message)]

\* calculateBackoff(attempt) without the jitter, which adds up to 30 % below
\* the cap
calculateBackoff(attempt) ==
  Min(baseDelayMs * Power(exponentialBase, attempt), maxDelayMs)

\* hashData(data): 16 digits of the digest of the data under its sorted keys
hashData(data) == <<"16 of">> \o Sha256(Stringify(data, SortedKeys(data)))

\* the APIResponse of a success and of a failure; data is << >> when the
\* operation resolved to undefined
Succeeded(data) ==
  [success |-> TRUE, data |-> data, error |-> << >>,
   metadata |-> [hash |-> IF data = << >> THEN << >> ELSE <<hashData(data[1])>>]]
Failed(apiError) ==
  [success |-> FALSE, data |-> << >>, error |-> <<apiError>>,
   metadata |-> [hash |-> << >>]]

\* the messages of the errors an operation throws, and what it resolves to
ErrorMessages ==
  {"Cloudflare API error: 503 - busy", "Salesforce API error: 400 - bad",
   "Request Timeout", "connect ETIMEDOUT", "fetch failed"}
OperationData == {<< >>, <<DataA>>}

\* config.retries: absent, or a number
RetriesSet == {<< >>} \cup {<<n>> : n \in (0 - 1)..MaxRetries}
maxRetries == IF calc.args[1] = << >> THEN DefaultRetries ELSE calc.args[1][1]

\* the head of the for loop: the operation is invoked, or the loop is left
\* and the function returns its last statement
LoopHead(run, attempt) ==
  IF attempt <= maxRetries
  THEN [run EXCEPT !.pc = "call", !.attempt = attempt]
  ELSE [run EXCEPT !.pc = "done", !.attempt = attempt,
                   !.response = <<Failed(parseError(
                       IF run.seen = << >> THEN "Unknown error"
                       ELSE run.seen[Len(run.seen)].error))>>]

\* a client with its retry policy
InitRetry ==
  /\ InitStore
  /\ conflictResolution = "latest" /\ ~cloudflare /\ ~salesforce
  /\ acked = [on |-> FALSE, set |-> {}]
  /\ calc \in {[args |-> <<r>>, value |-> << >>] : r \in RetriesSet}

RetryUnchanged ==
  UNCHANGED <<records, lastSync, hash, syncInProgress, syncTimer, conflictResolution,
              cloudflare, salesforce, now, kv, frames, ops, returned, acked>>

\* executeWithRetry(operation, context) is called
executeWithRetry ==
  /\ Len(calc.args) = 1 /\ calc.value = << >>
  /\ calc' = [calc EXCEPT !.value =
                <<LoopHead([pc |-> "start", attempt |-> 0, seen |-> << >>,
                            delays |-> << >>, response |-> << >>], 0)>>]
  /\ RetryUnchanged

\* the awaited operation resolves
OperationResolves(data) ==
  /\ calc.value # << >> /\ calc.value[1].pc = "call"
  /\ calc' = [calc EXCEPT !.value =
                <<[calc.value[1] EXCEPT !.pc = "done",
                                        !.seen = Append(@, [ok |-> TRUE, error |-> ""]),
                                        !.response = <<Succeeded(data)>>]>>]
  /\ RetryUnchanged

\* mutant: the catch block retries whatever the error is
OperationRejectsRetriesAll(message) ==
  /\ calc.value # << >> /\ calc.value[1].pc = "call"
  /\ LET run == calc.value[1]
         apiError == parseError(message)
         seen == Append(run.seen, [ok |-> FALSE, error |-> message])
     IN calc' = [calc EXCEPT !.value =
                   IF run.attempt = maxRetries
                   THEN <<[run EXCEPT !.pc = "done", !.seen = seen,
                                      !.response = <<Failed(apiError)>>]>>
                   ELSE <<[run EXCEPT !.pc = "sleep", !.seen = seen,
                                      !.delays = Append(@, calculateBackoff(run.attempt))]>>]
  /\ RetryUnchanged

\* the awaited operation rejects: the catch block
OperationRejects(message) ==
  /\ calc.value # << >> /\ calc.value[1].pc = "call"
  /\ LET run == calc.value[1]
         apiError == parseError(message)
         seen == Append(run.seen, [ok |-> FALSE, error |-> message])
     IN calc' = [calc EXCEPT !.value =
                   IF ~apiError.retryable \/ run.attempt = maxRetries
                   THEN <<[run EXCEPT !.pc = "done", !.seen = seen,
                                      !.response = <<Failed(apiError)>>]>>
                   ELSE <<[run EXCEPT !.pc = "sleep", !.seen = seen,
                                      !.delays = Append(@, calculateBackoff(run.attempt))]>>]
  /\ RetryUnchanged

\* the timer of sleep(delay) fires: the next round of the loop
SleepResolves ==
  /\ calc.value # << >> /\ calc.value[1].pc = "sleep"
  /\ calc' = [calc EXCEPT !.value = <<LoopHead(calc.value[1], calc.value[1].attempt + 1)>>]
  /\ RetryUnchanged

NextRetry ==
  \/ executeWithRetry
  \/ \E data \in OperationData : OperationResolves(data)
  \/ \E message \in ErrorMessages : OperationRejects(message)
  \/ SleepResolves

\* the operation's promise settles and the timer of sleep() fires
SpecRetry == InitRetry /\ [][NextRetry]_vars /\ WF_vars(NextRetry)

\* the engine with the history of acknowledgements
SpecAck == InitAck /\ [][Next]_vars

\* the engine under create, delete and sync, with the history of deletions
NextGone ==
  \/ Issue /\ \E t \in {"deployment"} : Create(t, DataA)
  \/ Issue /\ \E id \in Ids : Delete(id)
  \/ Issue /\ \E o \in SyncOptionsSet : Sync(o)
  \/ Issue /\ RemoteWrite
  \/ \E c \in CallIds : CfRetrieveReturn(c)
  \/ \E c \in CallIds : SfCrmReturn(c)
  \/ UNCHANGED ops /\ \E c \in CallIds : PullReturn(c)
  \/ \E c \in CallIds : CfStoreReturn(c)
  \/ \E c \in CallIds : SfSyncReturn(c)
  \/ UNCHANGED ops /\ \E c \in CallIds : PushReturn(c)

SpecGone == InitGone /\ [][NextGone]_vars

\* the engine under direct calls and the auto-sync timer
NextAuto ==
  \/ Issue /\ \E t \in {"deployment"} : Create(t, DataA)
  \/ Issue /\ \E id \in LocalIds, d \in PartialSet : Update(id, d)
  \/ Issue /\ \E o \in SyncOptionsSet : Sync(o)
  \/ Issue /\ StartAutoSync
  \/ Issue /\ StopAutoSync
  \/ Issue /\ TimerTick
  \/ \E c \in CallIds : CfRetrieveReturn(c)
  \/ \E c \in CallIds : SfCrmReturn(c)
  \/ UNCHANGED ops /\ \E c \in CallIds : PullReturn(c)
  \/ \E c \in CallIds : CfStoreReturn(c)
  \/ \E c \in CallIds : SfSyncReturn(c)
  \/ UNCHANGED ops /\ \E c \in CallIds : PushReturn(c)

SpecAuto == Init /\ [][NextAuto]_vars

\* the same, with the history of the runtime's intervals
SpecTimer == InitTimer /\ [][NextAuto]_vars


\* ====================================================================
\* Properties
\* ====================================================================
InFlight == {c \in CallIds : frames[c].pc # "idle"}
AwaitingAdapter(c) == frames[c].pc \in {"pull_cf", "pull_sf", "push_cf", "push_sf"}
\* a step that calls sync(): directly or from the interval callback
SyncCalled == TimerTick \/ \E o \in SyncOptionsSet : Sync(o)

\* C1: under direct calls and timer ticks in any interleaving, at most one
\* invocation of sync() is past the guard at any time, and syncInProgress is
\* set exactly while one is.
C1_AtMostOneInFlight ==
  /\ Cardinality(InFlight) <= 1
  /\ syncInProgress <=> InFlight # {}
\* a call was turned away while the timer runs and an invocation is pushing
C1_Witness ==
  /\ syncTimer
  /\ returned = <<Rejection>>
  /\ \E c \in CallIds : frames[c].pc \in {"push_cf", "push_sf"}

\* C2: a sync() call made while another invocation awaits an adapter returns
\* in the same step, with success false, failed = ['Sync already in progress']
\* and no synced entry or conflict, while the first invocation still awaits
\* its adapter.
C2_RejectedAtOnce ==
  [][((\E c \in CallIds : AwaitingAdapter(c)) /\ SyncCalled)
       => /\ returned' = <<[success |-> FALSE, synced |-> << >>,
                            failed |-> <<<<"Sync already in progress">>>>,
                            conflicts |-> << >>]>>
          /\ \A c \in CallIds : AwaitingAdapter(c) => AwaitingAdapter(c)']_vars
\* a call was turned away while the first invocation awaits retrieveState
C2_Witness ==
  /\ returned # << >> /\ ~returned[1].success
  /\ returned[1].failed = <<<<"Sync already in progress">>>>
  /\ \E c \in CallIds : frames[c].pc = "pull_cf"

\* C3: a rejected sync() changes nothing: the records, lastSync, the store
\* hash and the in-progress flag are as before, no adapter is called (no
\* frame moves, Cloudflare KV is as before).
C3_RejectionNoSideEffect ==
  [][(syncInProgress /\ SyncCalled)
       => /\ UNCHANGED <<records, lastSync, hash, syncInProgress, kv, frames>>
          /\ syncInProgress']_vars
\* a call was turned away with a record in the store and a push in flight
C3_Witness ==
  /\ returned = <<Rejection>>
  /\ syncInProgress
  /\ DOMAIN records # {}
  /\ \E c \in CallIds : frames[c].pc = "push_cf" /\ frames[c].recordsToSync # {}

\* -------------------------------------------------------------- pull
\* the step in which invocation c resumes from retrieveState and merges
MergeStep(c) == frames[c].pc = "pull_cf" /\ frames'[c].pc # "pull_cf"
\* the value under 'blackroad_state' does not carry the hash of its data
KvInvalid == kv # << >> /\ hashStatePayload(kv[1].data) # kv[1].hash
\* the records of the value under 'blackroad_state'
RemoteRecords == kv[1].data.records
\* id is held on both sides with different fingerprints
Conflicting(id) ==
  /\ kv # << >>
  /\ id \in DOMAIN records /\ id \in DOMAIN RemoteRecords
  /\ RemoteRecords[id].hash # records[id].hash
\* the conflicts of a list that are about id
About(conflicts, id) == {i \in DOMAIN conflicts : conflicts[i].recordId = id}
\* the entries of result.synced that are about id
SyncedAbout(synced, id) == {i \in DOMAIN synced : synced[i][2] = id}

\* C4: when the value retrieved from Cloudflare does not carry the hash of its
\* data, the pull merges nothing of it: the records map is as before, and the
\* pull result has no synced entry and no conflict.
C4_InvalidBlobNotMerged ==
  [][\A c \in CallIds :
       (MergeStep(c) /\ KvInvalid)
         => /\ records' = records
            /\ frames'[c].pull.conflicts = << >>
            /\ frames'[c].pull.synced = << >>]_vars
\* a pull met a value with a wrong hash that holds another version of a local
\* record
C4_Witness ==
  /\ KvInvalid
  /\ Conflicting("r1")
  /\ \E c \in CallIds : frames[c].kvResult = "invalid" /\ frames[c].pc \in {"pull_sf", "pull_ret"}

\* C5: when the value retrieved from Cloudflare fails the fingerprint check,
\* the pull result has a failed entry for cloudflare (so that success is
\* false).
C5_IntegrityFailureReported ==
  \A c \in CallIds :
    frames[c].kvResult = "invalid"
      => \E i \in DOMAIN frames[c].pull.failed : frames[c].pull.failed[i][1] = "cloudflare"

\* C6: a pull of a valid value records, for every id held on both sides with
\* different fingerprints, exactly one conflict, with the local and the
\* remote data as they were before the merge; for an id with equal
\* fingerprints it records none and leaves the local record as it was.
C6_ConflictsRecorded ==
  [][\A c \in CallIds :
       (MergeStep(c) /\ frames'[c].kvResult = "valid")
         => \A id \in Ids :
              LET conflicts == frames'[c].pull.conflicts IN
              IF Conflicting(id)
              THEN /\ Cardinality(About(conflicts, id)) = 1
                   /\ \A i \in About(conflicts, id) :
                        /\ conflicts[i].localValue = records[id].data
                        /\ conflicts[i].remoteValue = RemoteRecords[id].data
              ELSE /\ About(conflicts, id) = {}
                   /\ (id \in DOMAIN records /\ id \in DOMAIN RemoteRecords)
                        => records'[id] = records[id]]_vars
\* a conflict was recorded with the data of both sides, whichever the policy
C6_Witness ==
  \E c \in CallIds :
    /\ frames[c].kvResult = "valid"
    /\ frames[c].pull.conflicts # << >>
    /\ frames[c].pull.conflicts[1].localValue # frames[c].pull.conflicts[1].remoteValue
    /\ conflictResolution = "remote"

\* C7: under 'latest', of a conflicting pair the remote record replaces the
\* local one only if its updatedAt is strictly later (resolution 'remote');
\* with a later or an equal local updatedAt the local record stays as it is
\* (resolution 'local').
C7_LatestWins ==
  [][\A c \in CallIds :
       (MergeStep(c) /\ frames'[c].kvResult = "valid" /\ conflictResolution = "latest")
         => \A id \in Ids :
              Conflicting(id) =>
                LET conflicts == frames'[c].pull.conflicts
                    T1 == records[id].updatedAt
                    T2 == RemoteRecords[id].updatedAt
                IN IF T2 > T1
                   THEN /\ records'[id].data = RemoteRecords[id].data
                        /\ \A i \in About(conflicts, id) : conflicts[i].resolution = "remote"
                   ELSE /\ records'[id] = records[id]
                        /\ \A i \in About(conflicts, id) : conflicts[i].resolution = "local"]_vars
\* under 'latest' a conflict between records of the same updatedAt was
\* resolved, the local record kept
C7_Witness ==
  /\ conflictResolution = "latest"
  /\ Conflicting("r1")
  /\ records["r1"].updatedAt = RemoteRecords["r1"].updatedAt
  /\ \E c \in CallIds :
       /\ frames[c].kvResult = "valid"
       /\ About(frames[c].pull.conflicts, "r1") # {}
       /\ \A i \in About(frames[c].pull.conflicts, "r1") :
            frames[c].pull.conflicts[i].resolution = "local"

\* C8: when the remote record wins a conflict, the local record gets the
\* remote data and a syncedTo that names cloudflare, the adapter that
\* reported it, and no other adapter.
C8_RemoteWinnerSyncedTo ==
  [][\A c \in CallIds :
       (MergeStep(c) /\ frames'[c].kvResult = "valid")
         => \A id \in Ids :
              LET conflicts == frames'[c].pull.conflicts IN
              (Conflicting(id) /\ \E i \in About(conflicts, id) : conflicts[i].resolution = "remote")
                => /\ records'[id].data = RemoteRecords[id].data
                   /\ {records'[id].syncedTo[i] : i \in DOMAIN records'[id].syncedTo}
                        = {"cloudflare"}]_vars

\* C9: under 'local' a conflicting pull leaves the local record as it was and
\* records the conflict with resolution 'local', and the push that follows
\* without force selects the record, if the store still holds it.
C9_LocalWinnerPushed ==
  [][\A c \in CallIds :
       /\ (MergeStep(c) /\ frames'[c].kvResult = "valid" /\ conflictResolution = "local")
            => \A id \in Ids :
                 Conflicting(id) =>
                   /\ records'[id] = records[id]
                   /\ \A i \in About(frames'[c].pull.conflicts, id) :
                        frames'[c].pull.conflicts[i].resolution = "local"
       /\ (/\ frames[c].pc = "pull_ret"
           /\ frames'[c].pc \in {"push_cf", "push_sf", "push_ret"}
           /\ ~frames[c].force
           /\ conflictResolution = "local")
            => \A i \in DOMAIN frames[c].pull.conflicts :
                 frames[c].pull.conflicts[i].recordId \in DOMAIN records
                   => frames[c].pull.conflicts[i].recordId \in frames'[c].recordsToSync]_vars

\* C10: under 'manual' a conflicting pull leaves the local record as it was,
\* records the conflict with no resolution, and adds no synced entry for the
\* record.
C10_ManualAppliesNeither ==
  [][\A c \in CallIds :
       (MergeStep(c) /\ frames'[c].kvResult = "valid" /\ conflictResolution = "manual")
         => \A id \in Ids :
              Conflicting(id) =>
                /\ records'[id] = records[id]
                /\ About(frames'[c].pull.conflicts, id) # {}
                /\ \A i \in About(frames'[c].pull.conflicts, id) :
                     frames'[c].pull.conflicts[i].resolution = "undefined"
                /\ SyncedAbout(frames'[c].pull.synced, id) = {}]_vars
\* under 'manual' a conflict was reported and the differing record is still
\* in the store
C10_Witness ==
  /\ conflictResolution = "manual"
  /\ Conflicting("r1")
  /\ \E c \in CallIds :
       /\ frames[c].kvResult = "valid"
       /\ About(frames[c].pull.conflicts, "r1") # {}

\* C11: a pull of a valid value stores every remote record whose id the map
\* does not hold as it is in the value (id, type, data, hash, version,
\* createdAt, updatedAt), with syncedTo exactly ['cloudflare'], and lists it
\* in the pull result as 'cloudflare:<id>'.
C11_AdoptedVerbatim ==
  [][\A c \in CallIds :
       (MergeStep(c) /\ frames'[c].kvResult = "valid")
         => \A id \in DOMAIN RemoteRecords \ DOMAIN records :
              /\ id \in DOMAIN records'
              /\ records'[id] = [RemoteRecords[id] EXCEPT !.syncedTo = <<"cloudflare">>]
              /\ \E i \in DOMAIN frames'[c].pull.synced :
                   frames'[c].pull.synced[i] = <<"cloudflare", id>>]_vars
\* a record the value holds with an empty syncedTo was adopted, and is held
\* as synced to cloudflare
C11_Witness ==
  /\ kv # << >>
  /\ "r1" \in DOMAIN RemoteRecords /\ "r1" \in DOMAIN records
  /\ RemoteRecords["r1"].syncedTo = << >>
  /\ records["r1"] = [RemoteRecords["r1"] EXCEPT !.syncedTo = <<"cloudflare">>]
  /\ \E c \in CallIds :
       /\ frames[c].pc \in {"pull_sf", "pull_ret"}
       /\ \E i \in DOMAIN frames[c].pull.synced :
            frames[c].pull.synced[i] = <<"cloudflare", "r1">>

\* C12: after sync({direction: 'pull'}) has merged a valid value, a second
\* pull of the same value into the map the first one left finds no conflict
\* and changes no record's fingerprint, whichever the policy.
C12_PullIdempotent ==
  [][\A c \in CallIds :
       (MergeStep(c) /\ frames'[c].kvResult = "valid" /\ frames[c].direction = "pull")
         => LET second == PullCloudflare(records',
                                         [synced |-> << >>, failed |-> << >>,
                                          conflicts |-> << >>],
                                         retrieveState(kv, TRUE), FALSE)
            IN /\ second.conflicts = << >>
               /\ \A id \in DOMAIN records' :
                    second.records[id].hash = records'[id].hash]_vars

\* ------------------------------------------------------------------ push
\* the entries of a failed list that are about an adapter
FailedAbout(failed, store) == {i \in DOMAIN failed : failed[i][1] = store}

\* C13: when storeState() or syncState() rejects or answers without success,
\* the push result gets a failed entry for that adapter and no record gains
\* the adapter in its syncedTo; after Cloudflare failed, a configured
\* Salesforce is still called.
C13_PushPartialFailure ==
  [][\A c \in CallIds :
       /\ (CfStoreSettles(c, "fail") \/ CfStoreSettles(c, "throw"))
            => /\ FailedAbout(frames'[c].push.failed, "cloudflare") # {}
               /\ records' = records
               /\ salesforce => frames'[c].pc = "push_sf"
       /\ (\E authOk \in BOOLEAN, upsertOk \in BOOLEAN, thrown \in BOOLEAN :
             /\ SfSyncSettles(c, authOk, upsertOk, thrown)
             /\ (thrown \/ ~syncState(authOk, upsertOk).success))
            => /\ FailedAbout(frames'[c].push.failed, "salesforce") # {}
               /\ records' = records]_vars

\* C14: in every reachable state, each adapter named in a record's syncedTo
\* has stored or reported a copy of that record with the fingerprint the
\* record has now.
C14_SyncedToAcknowledged ==
  \A id \in DOMAIN records :
    \A i \in DOMAIN records[id].syncedTo :
      <<records[id].syncedTo[i], id, records[id].hash>> \in acked.set

\* a record's syncedTo names every configured remote store
Covered(r) ==
  LET stores == {r.syncedTo[i] : i \in DOMAIN r.syncedTo}
  IN /\ cloudflare => "cloudflare" \in stores
     /\ salesforce => "salesforce" \in stores
\* the step in which the last configured adapter acknowledges the push of
\* invocation c, every record of the map having been selected and none
\* replaced since
AllAcknowledged(c) ==
  /\ frames[c].held = DOMAIN records
  /\ \/ ~salesforce /\ CfStoreSettles(c, "ok")
     \/ /\ \E authOk \in BOOLEAN, upsertOk \in BOOLEAN :
             SfSyncSettles(c, authOk, upsertOk, FALSE) /\ syncState(authOk, upsertOk).success
        /\ cloudflare => \E i \in DOMAIN frames[c].push.synced :
                           frames[c].push.synced[i][1] = "cloudflare"
\* the records of the map that pass the type filters of invocation c
PassFilters(f) ==
  {id \in DOMAIN records :
     /\ f.includeTypes # << >> => records[id].type \in f.includeTypes[1]
     /\ f.excludeTypes # << >> => records[id].type \notin f.excludeTypes[1]}

\* C15: with a remote store configured, a record is counted as pending, and
\* selected by a push without force, exactly when its syncedTo does not name
\* every configured store; so once every configured adapter has acknowledged
\* a push of all records, pendingSync is 0; and a push with force selects
\* every record that passes the type filters.
C15_PendingIffNotCovered ==
  [][/\ (cloudflare \/ salesforce)
          => \A id \in DOMAIN records :
               /\ Pending(records[id]) <=> ~Covered(records[id])
               /\ NeedsSync(records[id], IdleFrame) <=> ~Covered(records[id])
     /\ \A c \in CallIds :
          /\ AllAcknowledged(c) => getSyncStatus'.pendingSync = 0
          /\ (frames[c].pc \in {"idle", "pull_ret"}
              /\ frames'[c].pc \in {"push_cf", "push_sf", "push_ret"}
              /\ frames'[c].force)
               => frames'[c].recordsToSync = PassFilters(frames'[c])]_vars

\* ------------------------------------------------------------ results
\* a call of sync() settled in the step just taken
Settled == returned # << >>

\* C16: no call of sync() ends in an exception: whatever the adapters answer
\* and whatever the store holds, records of importState() included, a call
\* that settles returns a result with success, synced, failed and conflicts;
\* and an adapter call that rejects leaves a failed entry for the adapter.
C16_NoUncaughtException ==
  [][/\ Settled' => DOMAIN returned'[1] = {"success", "synced", "failed", "conflicts"}
     /\ \A c \in CallIds :
          /\ CfRetrieveSettles(c, "throw")
               => FailedAbout(frames'[c].pull.failed, "cloudflare") # {}
          /\ (\E crmState \in CRMStates : SfCrmSettles(c, "throw", crmState))
               => FailedAbout(frames'[c].pull.failed, "salesforce") # {}
          /\ CfStoreSettles(c, "throw")
               => FailedAbout(frames'[c].push.failed, "cloudflare") # {}
          /\ (\E authOk \in BOOLEAN, upsertOk \in BOOLEAN :
                SfSyncSettles(c, authOk, upsertOk, TRUE))
               => FailedAbout(frames'[c].push.failed, "salesforce") # {}]_vars

\* C17: the result of a call of sync() has success true exactly when its
\* failed list is empty, whatever its conflicts are.
C17_SuccessIffNoFailure ==
  Settled => (returned[1].success <=> returned[1].failed = << >>)
\* a call returned success with a conflict that nothing resolved
C17_Witness ==
  /\ Settled
  /\ returned[1].success
  /\ \E i \in DOMAIN returned[1].conflicts :
       returned[1].conflicts[i].resolution = "undefined"

\* ---------------------------------------------------------- record store
\* C18: update(id, partial) on a record of the map stores a record whose
\* data has the partial's values over the old ones (key by key, nothing
\* deeper), whose hash is hashState of that data, whose version is one more,
\* whose syncedTo is empty and whose id, type and createdAt are the old ones,
\* and touches no other record; on an id the map does not hold it leaves the
\* map and the store hash as they are.
C18_UpdateSemantics ==
  [][\A id \in Ids, d \in PartialWide :
       Update(id, d)
         => IF id \in DOMAIN records
            THEN LET old == records[id]
                     new == records'[id]
                 IN /\ Keys(new.data) = Keys(old.data) \cup Keys(d)
                    /\ \A k \in Keys(d) : Get(new.data, k) = Get(d, k)
                    /\ \A k \in Keys(old.data) \ Keys(d) :
                         Get(new.data, k) = Get(old.data, k)
                    /\ new.hash = hashState(new.data)
                    /\ new.version = old.version + 1
                    /\ new.syncedTo = << >>
                    /\ new.id = old.id /\ new.type = old.type
                    /\ new.createdAt = old.createdAt
                    /\ DOMAIN records' = DOMAIN records
                    /\ \A other \in DOMAIN records \ {id} : records'[other] = records[other]
            ELSE records' = records /\ hash' = hash]_vars
\* a record was updated after the clock moved, with a value replaced
C18_Witness ==
  /\ "r1" \in DOMAIN records
  /\ records["r1"].version = 2
  /\ records["r1"].syncedTo = << >>
  /\ Get(records["r1"].data, "app") = Prim("y")
  /\ records["r1"].updatedAt > records["r1"].createdAt

\* C19: in every reachable state, after create, update, delete, pull, CRM
\* merge and importState in any order, every record of the map carries the
\* hash of its data: hash = hashState(data).
C19_FingerprintCurrent ==
  \A id \in DOMAIN records : records[id].hash = hashState(records[id].data)

\* ------------------------------------------------------------- hashing
\* two values are the same: the same primitive, or objects with the same keys
\* and the same values under them, whatever the order they were inserted in
RECURSIVE SameValue(_, _)
SameValue(v1, v2) ==
  IF v1.tag = "p" \/ v2.tag = "p" THEN v1 = v2
  ELSE /\ Keys(v1.obj) = Keys(v2.obj)
       /\ \A k \in Keys(v1.obj) : SameValue(Get(v1.obj, k), Get(v2.obj, k))

\* two state objects are the same mapping: the same keys with the same values
SameMapping(d1, d2) == SameValue(Obj(d1), Obj(d2))

\* C20: two state objects that differ in a key or in a value, a value inside
\* an object-valued field included, get different hashes from hashState().
C20_HashStateInjective ==
  (calc.value # << >> /\ ~SameMapping(calc.args[1], calc.args[2]))
    => calc.value[1] # calc.value[2]

\* C21: two state objects that are the same mapping, built in different
\* insertion orders, get the same hash from hashState().
C21_HashStateKeyOrder ==
  (calc.value # << >> /\ SameMapping(calc.args[1], calc.args[2]))
    => calc.value[1] = calc.value[2]

\* hashState() was applied to one mapping built in two orders, the order
\* inside an object-valued field included
C21_Witness ==
  /\ calc.value # << >>
  /\ SameMapping(calc.args[1], calc.args[2])
  /\ Keys(calc.args[1]) = {"app", "env", "meta"}
  /\ calc.args[1][1].k # calc.args[2][1].k
  /\ Get(calc.args[1], "meta") # Get(calc.args[2], "meta")


\* ------------------------------------------------------------ versions
\* C22: over create, update and sync (adoption, conflict resolution, push)
\* the version stored under a record id never decreases from one step to
\* the next.
C22_VersionNeverDecreases ==
  [][\A id \in DOMAIN records \cap DOMAIN records' :
       records'[id].version >= records[id].version]_vars

\* ------------------------------------------------------ export and import
\* C23: importState(exportState()) round-trips: after the document that
\* exportState() returned is imported, on the same manager or on another
\* state of it, the records map has the ids it had at the export and under
\* each id the same type, data, hash and version (syncedTo aside).
C23_ExportImportRoundTrip ==
  Len(calc.value) = 2 =>
    LET original == calc.args[1]
        imported == calc.value[2]
    IN /\ DOMAIN imported = DOMAIN original
       /\ \A id \in DOMAIN original :
            /\ imported[id].type = original[id].type
            /\ imported[id].data = original[id].data
            /\ imported[id].hash = original[id].hash
            /\ imported[id].version = original[id].version

\* a store of two records, one updated to version 2, was exported and the
\* document imported
C23_Witness ==
  /\ Len(calc.value) = 2
  /\ DOMAIN calc.args[1] = {"r1", "r2"}
  /\ calc.args[1]["r1"].version = 2
  /\ DOMAIN records = {"r1", "r2"}


\* ---------------------------------------------------------------- query
\* C24: the result of query(filter) is the list of all records, filtered by
\* type when a type is given, then by dataFilter when one is given, then
\* without its first offset elements when an offset is given, then cut to
\* its first limit elements when a limit is given.
C24_QueryOrder ==
  calc.value # << >> =>
    LET filter == calc.args[1]
        all == Values(records)
        typed == IF filter.type = << >> THEN all
                 ELSE SelectSeq(all, LAMBDA r : r.type = filter.type[1])
        chosen == IF filter.dataFilter = << >> THEN typed
                  ELSE SelectSeq(typed, LAMBDA r : Holds(filter.dataFilter[1], r.data))
        dropped == IF filter.offset = << >> THEN chosen
                   ELSE SubSeq(chosen, filter.offset[1] + 1, Len(chosen))
        cut == IF filter.limit = << >> THEN dropped
               ELSE SubSeq(dropped, 1, Min(filter.limit[1], Len(dropped)))
    IN calc.value[1] = cut


\* ------------------------------------------------------ store-wide hash
\* C25: when a step changes the records, lastSync or the hash and leaves no
\* sync() in flight (a create, update or delete outside a sync, or the last
\* step of a sync), the hash getSyncStatus() exposes is the fingerprint of
\* the records and lastSync the store then holds.
C25_StoreHashCurrent ==
  [][(InFlight' = {} /\ <<records, lastSync, hash>>' # <<records, lastSync, hash>>)
       => getSyncStatus'.hash = hashStateLocal(records', lastSync')]_vars

\* ------------------------------------------------------------- deletion
\* C26: delete(id) takes the id out of the map and leaves nothing behind
\* that a pull consults: when a pull merges a valid value that holds an id
\* delete() removed, before the pull or while it was suspended, and the map
\* does not hold the id, the record is in the map again after the merge,
\* adopted from the remote copy.
C26_DeletedResurrected ==
  [][/\ \A id \in DOMAIN records : Delete(id) => id \notin DOMAIN records'
     /\ \A c \in CallIds :
          (MergeStep(c) /\ frames'[c].kvResult = "valid")
            => \A id \in (acked.gone \cap DOMAIN RemoteRecords) \ DOMAIN records :
                 /\ id \in DOMAIN records'
                 /\ records'[id] = [RemoteRecords[id] EXCEPT !.syncedTo = <<"cloudflare">>]]_vars

\* a record created here and pushed was deleted, and the pull in flight has
\* adopted it again from the value under 'blackroad_state'
C26_Witness ==
  /\ "r1" \in acked.gone
  /\ kv # << >>
  /\ "r1" \in DOMAIN RemoteRecords /\ "r1" \in DOMAIN records
  /\ RemoteRecords["r1"].data = DataA
  /\ records["r1"] = [RemoteRecords["r1"] EXCEPT !.syncedTo = <<"cloudflare">>]
  /\ \E c \in CallIds :
       /\ frames[c].pc \in {"pull_sf", "pull_ret"}
       /\ \E i \in DOMAIN frames[c].pull.synced :
            frames[c].pull.synced[i] = <<"cloudflare", "r1">>

\* ------------------------------------------------- update during a sync
\* C27: no step of a sync() invocation, from its start to its return and in
\* particular when it resumes from an adapter call, changes or removes the
\* data a record holds, unless it is the merge of a valid value in which
\* the policy resolved the conflict on that id to the remote version: what
\* update() wrote while the invocation was suspended is still there after.
C27_UpdateNotLost ==
  [][\A c \in CallIds :
       frames'[c].pc # frames[c].pc
         => \A id \in DOMAIN records :
              \/ /\ id \in DOMAIN records'
                 /\ records'[id].data = records[id].data
                 /\ records'[id].version = records[id].version
              \/ /\ MergeStep(c) /\ frames'[c].kvResult = "valid"
                 /\ Conflicting(id)
                 /\ resolveConflict(records[id], RemoteRecords[id]).resolution = "remote"
                 /\ id \in DOMAIN records'
                 /\ records'[id].data = RemoteRecords[id].data]_vars

\* update() replaced a record that a push had selected while the push was
\* suspended; the adapter calls have settled and the record still carries
\* what update() wrote
C27_Witness ==
  \E c \in CallIds :
    /\ frames[c].pc = "push_ret"
    /\ "r1" \in frames[c].recordsToSync \ frames[c].held
    /\ \E i \in DOMAIN frames[c].push.synced : frames[c].push.synced[i][2] = "r1"
    /\ "r1" \in DOMAIN records
    /\ records["r1"].version = 2
    /\ Has(records["r1"].data, "env")
    /\ records["r1"].syncedTo = << >>

\* ------------------------------------------------------ hash and verify
\* C28: for every data string and every options with one of the algorithms
\* sha256, sha384, sha512, sha_infinity (or none given), any iteration
\* count, any salt given or generated and any encoding,
\* verify(data, hash(data, options)).valid is true.
C28_VerifyRoundTrip ==
  (/\ Len(calc.value) = 2
   /\ OptionOr(calc.args[2], "algorithm", "sha256")
        \in {"sha256", "sha384", "sha512", "sha_infinity"})
    => calc.value[2].valid

\* C29: merkleRoot([]) is sha256('empty'), merkleRoot([h]) is h, the root of
\* a longer list is the root of the list of sha256(left ':' right) over its
\* adjacent pairs, the last hash paired with itself when the length is odd,
\* and the root of [a, b] is not the root of [b, a] when a differs from b.
C29_MerkleReference ==
  calc.value # << >> =>
    LET hs == calc.args[1]
        root == calc.value[1]
        pairs == [i \in 1..((Len(hs) + 1) \div 2) |->
                    Sha256(hs[2 * i - 1] \o <<":">>
                           \o (IF 2 * i <= Len(hs) THEN hs[2 * i] ELSE hs[2 * i - 1]))]
    IN /\ Len(hs) = 0 => root = Sha256(<<"empty">>)
       /\ Len(hs) = 1 => root = hs[1]
       /\ Len(hs) >= 2 => root = merkleRoot(pairs)
       /\ (Len(hs) = 2 /\ hs[1] # hs[2]) => root # merkleRoot(<<hs[2], hs[1]>>)

\* merkleRoot() was applied to a list of odd length, of at least three
\* hashes that are not all the same
C29_Witness ==
  /\ calc.value # << >>
  /\ Len(calc.args[1]) = 3
  /\ calc.args[1][1] # calc.args[1][3]
  /\ calc.value[1] =
       Sha256(Sha256(calc.args[1][1] \o <<":">> \o calc.args[1][2]) \o <<":">>
              \o Sha256(calc.args[1][3] \o <<":">> \o calc.args[1][3]))

\* C30: hash() called with an algorithm name outside sha256, sha384, sha512
\* and sha_infinity throws, whatever the iteration count, 0 included: it
\* returns no HashResult.
C30_UnsupportedAlgorithmRejected ==
  (/\ Len(calc.value) >= 1
   /\ OptionOr(calc.args[2], "algorithm", "sha256")
        \notin {"sha256", "sha384", "sha512", "sha_infinity"})
    => "thrown" \in DOMAIN calc.value[1]

\* ------------------------------------------------ errors during a pull
\* C31: when retrieveState() throws, the pull gains the one failed entry
\* 'cloudflare:...', the map is as it was and the Salesforce block still
\* runs if Salesforce is configured; when getCRMState() throws, the pull
\* gains the one failed entry 'salesforce:...' and the map, with what the
\* Cloudflare block merged, is as it was; after a Cloudflare failure a
\* getCRMState() that answers is merged as ever.
C31_PullErrorsIsolated ==
  [][\A c \in CallIds :
       /\ CfRetrieveSettles(c, "throw")
            => /\ records' = records
               /\ frames'[c].pull.failed = <<<<"cloudflare", "error">>>>
               /\ frames'[c].pull.synced = << >>
               /\ salesforce => frames'[c].pc = "pull_sf"
       /\ \A crmState \in CRMStates :
            /\ SfCrmSettles(c, "throw", crmState)
                 => /\ records' = records
                    /\ frames'[c].pull.failed
                         = Append(frames[c].pull.failed, <<"salesforce", "error">>)
                    /\ frames'[c].pull.synced = frames[c].pull.synced
            /\ SfCrmSettles(c, "ok", crmState)
                 => /\ records' = mergeCRMState(records, crmState)
                    /\ frames'[c].pull.failed = frames[c].pull.failed
                    /\ frames'[c].pull.synced
                         = Append(frames[c].pull.synced, <<"salesforce", "crm_state">>)]_vars

\* retrieveState() threw, and the Salesforce pull of the same sync merged a
\* CRM account
C31_Witness ==
  \E c \in CallIds :
    /\ frames[c].pc = "pull_ret"
    /\ frames[c].pull.failed = <<<<"cloudflare", "error">>>>
    /\ frames[c].pull.synced = <<<<"salesforce", "crm_state">>>>
    /\ "crm_account_A1" \in DOMAIN records

\* ------------------------------------------------------------- phases
\* where an invocation is: in its pull, in its push
Pulling(f) == f.pc \in {"pull_cf", "pull_sf", "pull_ret"}
Pushing(f) == f.pc \in {"push_cf", "push_sf", "push_ret"}

\* C32: an invocation of sync() with direction 'bidirectional' enters its
\* push only from the return of its pull, all pull adapter calls settled
\* and merged; one with direction 'pull' never is in a push, never selects a
\* record to push and no step of it makes a syncedTo longer than the merge
\* wrote it; one with direction 'push' never is in a pull, never calls
\* retrieveState() and has an empty conflicts list, in the result too.
C32_PhasesOrdered ==
  [][\A c \in CallIds :
       LET f == frames[c]
           g == frames'[c]
       IN /\ (g.direction = "bidirectional" /\ Pushing(g) /\ ~Pushing(f))
               => (f.pc = "pull_ret" /\ g.synced = f.pull.synced)
          /\ (Pulling(g) /\ g.direction = "bidirectional")
               => (g.push.synced = << >> /\ g.recordsToSync = {} /\ g.payload = << >>)
          /\ g.direction = "pull"
               => /\ ~Pushing(g)
                  /\ g.recordsToSync = {} /\ g.payload = << >> /\ g.push.synced = << >>
                  /\ (f.pc = "pull_ret" /\ g.pc = "idle")
                       => (records' = records /\ kv' = kv)
          /\ g.direction = "push"
               => /\ ~Pulling(g)
                  /\ g.kvResult = "none"
                  /\ g.conflicts = << >> /\ g.pull.conflicts = << >>
          /\ (f.direction = "push" /\ Pushing(f) /\ g.pc = "idle")
               => returned'[1].conflicts = << >>]_vars

\* a bidirectional sync() is suspended in its first push call, after a pull
\* that merged a valid value and recorded a conflict
C32_Witness ==
  \E c \in CallIds :
    /\ frames[c].direction = "bidirectional"
    /\ frames[c].pc = "push_cf"
    /\ frames[c].kvResult = "valid"
    /\ frames[c].conflicts # << >>
    /\ frames[c].synced # << >>

\* ------------------------------------------------- the in-progress flag
\* C33: when an accepted sync() settles, with a result or with an exception
\* that leaves a phase, syncInProgress is false; with no invocation in
\* flight the flag is false and a call of sync() is not rejected as
\* concurrent; and a sync() in flight always settles, the flag false again.
C33_FlagReleased ==
  /\ [][/\ \A c \in CallIds :
            (frames[c].pc # "idle" /\ frames'[c].pc = "idle")
              => (~syncInProgress' /\ returned' # << >>)
        /\ returned' = <<Uncaught>> => ~syncInProgress'
        /\ InFlight' = {} => ~syncInProgress'
        /\ \A o \in SyncOptionsSet :
             (Sync(o) /\ InFlight = {}) => returned' # <<Rejection>>]_vars
  /\ (syncInProgress ~> ~syncInProgress)

\* an exception has just left the push phase of a sync(), over a record
\* without syncedTo, and the flag is released
C33_Witness ==
  /\ returned = <<Uncaught>>
  /\ ~syncInProgress
  /\ InFlight = {}
  /\ \E id \in DOMAIN records : ~HasSyncedTo(records[id])


\* ------------------------------------------------- the Salesforce push
\* C34: when the upsert inside syncState() did not succeed, the push adds
\* 'salesforce' to the syncedTo of no record.
C34_SalesforceStoredOrNotSynced ==
  [][\A c \in CallIds, authOk \in BOOLEAN, thrown \in BOOLEAN :
       SfSyncSettles(c, authOk, FALSE, thrown)
         => \A id \in DOMAIN records :
              \A i \in DOMAIN records'[id].syncedTo :
                records'[id].syncedTo[i] = "salesforce"
                  => \E j \in DOMAIN records[id].syncedTo :
                       records[id].syncedTo[j] = "salesforce"]_vars

\* --------------------------------------------------------- CRM merge
\* the record ids of the objects of a kind
CRMIds(kind, objects) ==
  {kind \o "_" \o Get(objects[i], "Id").prim : i \in DOMAIN objects}

\* C35: the merge of what getCRMState() answered leaves every record the
\* map holds as it is, raises no conflict, and adds for each account,
\* contact and opportunity whose id crm_<kind>_<Id> the map does not hold a
\* record of that id and kind with the object as data, version 1 and
\* syncedTo ['salesforce'], and nothing else.
C35_CRMMergeOnlyAdds ==
  [][\A c \in CallIds, crmState \in CRMStatesWide :
       SfCrmSettles(c, "ok", crmState)
         => /\ \A id \in DOMAIN records :
                 id \in DOMAIN records' /\ records'[id] = records[id]
            /\ DOMAIN records' =
                 DOMAIN records \cup CRMIds("crm_account", crmState.accounts)
                                \cup CRMIds("crm_contact", crmState.contacts)
                                \cup CRMIds("crm_opportunity", crmState.opportunities)
            /\ \A id \in DOMAIN records' \ DOMAIN records :
                 /\ records'[id].id = id
                 /\ records'[id].version = 1
                 /\ records'[id].syncedTo = <<"salesforce">>
                 /\ \E kind \in {"accounts", "contacts", "opportunities"} :
                      \E i \in DOMAIN crmState[kind] :
                        /\ records'[id].data = crmState[kind][i]
                        /\ records'[id].hash = hashState(crmState[kind][i])
                        /\ records'[id].type \o "_" \o Get(crmState[kind][i], "Id").prim = id
            /\ frames'[c].pull.conflicts = frames[c].pull.conflicts
            /\ frames'[c].pull.failed = frames[c].pull.failed]_vars

\* Salesforce has reported the account under a new name, and the record
\* of the account still is the one merged first, next to a contact and an
\* opportunity, with no conflict
C35_Witness ==
  /\ {"crm_account_A1", "crm_contact_C1", "crm_opportunity_O1"} \subseteq DOMAIN records
  /\ records["crm_account_A1"].data = CRMObject("A1", "n1")
  /\ records["crm_account_A1"].version = 1
  /\ <<"salesforce", "crm_account_A1", hashState(CRMObject("A1", "n2"))>> \in acked.set
  /\ \E c \in CallIds : frames[c].pc = "pull_ret" /\ frames[c].pull.conflicts = << >>

\* ------------------------------------------------------ executeWithRetry
\* the invocations of the operation so far
Invoked(run) == Len(run.seen) + (IF run.pc = "call" THEN 1 ELSE 0)

RetryDone == calc.value # << >> /\ calc.value[1].pc = "done"

\* C36: executeWithRetry invokes the operation at most maxRetries + 1 times
\* (4 times under the default policy), every invocation but the last one
\* failed with a retryable error, it never leaves by an exception, it
\* returns an APIResponse that is a success with the data or a failure with
\* an error, and it does return.
C36_RetryTerminates ==
  /\ [](calc.value # << >> =>
          LET run == calc.value[1]
          IN /\ run.pc \in {"call", "sleep", "done"}
             /\ Invoked(run) <= Max(maxRetries + 1, 0)
             /\ (calc.args[1] = << >> => Invoked(run) <= 4)
             /\ \A i \in 1..(Invoked(run) - 1) :
                  ~run.seen[i].ok /\ isRetryableError(run.seen[i].error)
             /\ (run.pc = "sleep" => isRetryableError(run.seen[Len(run.seen)].error))
             /\ (run.pc = "done") = (run.response # << >>)
             /\ run.pc = "done" =>
                  LET response == run.response[1]
                  IN IF response.success
                     THEN /\ response.error = << >>
                          /\ run.seen # << >> /\ run.seen[Len(run.seen)].ok
                     ELSE /\ response.error # << >> /\ response.data = << >>
                          /\ \A i \in DOMAIN run.seen : ~run.seen[i].ok)
  /\ (calc.value = << >>) ~> RetryDone

\* under the default policy the operation failed four times with retryable
\* errors, waiting longer each time, and the failure was returned
C36_Witness ==
  /\ RetryDone
  /\ calc.args[1] = << >>
  /\ Len(calc.value[1].seen) = 4
  /\ calc.value[1].delays = <<1000, 2000, 4000>>
  /\ ~calc.value[1].response[1].success
  /\ calc.value[1].response[1].error[1].retryable

\* ------------------------------------------------------------- auto-sync
\* C37: the runtime never holds more than one interval of the engine, and
\* holds one exactly while syncTimer is set; startAutoSync() with the timer
\* set makes no interval and starts no sync; without it, it makes one;
\* stopAutoSync() leaves none, so that the interval callback only runs while
\* syncTimer is set.
C37_OneTimer ==
  /\ [](/\ acked.timers.live <= 1
        /\ syncTimer = (acked.timers.live = 1))
  /\ [][/\ (StartAutoSync /\ syncTimer)
             => UNCHANGED <<acked, syncTimer, frames, syncInProgress, records, lastSync>>
        /\ (StartAutoSync /\ ~syncTimer)
             => /\ syncTimer'
                /\ acked'.timers = [made |-> acked.timers.made + 1, live |-> 1]
        /\ StopAutoSync => ~syncTimer' /\ acked'.timers.live = 0
        /\ TimerTick => syncTimer
        /\ acked'.timers.made # acked.timers.made => ~syncTimer /\ syncTimer']_vars

\* the timer was started, stopped and started again: the second interval
\* is the only one
C37_Witness ==
  /\ syncTimer
  /\ acked.timers = [made |-> 2, live |-> 1]

\* ----------------------------------------------------------- query limit
\* C38: whenever query() is given a limit, 0 included, its result has at
\* most limit records, whatever the offset.
C38_QueryLimitBounds ==
  (calc.value # << >> /\ calc.args[1].limit # << >>)
    => Len(calc.value[1]) <= calc.args[1].limit[1]

\* ------------------------------------------------- merkleRoot, odd lists
\* C39: the root of a list of an odd number of hashes, three at least, is
\* the root of the list with its last hash appended once more.
C39_OddListSharesRoot ==
  (calc.value # << >> /\ Len(calc.args[1]) >= 3 /\ Len(calc.args[1]) % 2 = 1)
    => LET hs == calc.args[1]
       IN calc.value[1] = merkleRoot(Append(hs, hs[Len(hs)]))

\* the root of three different hashes is the root of the four hashes that
\* repeat the third, and is not the root of the first two
C39_Witness ==
  /\ calc.value # << >>
  /\ calc.args[1] = <<Sha256(<<"a">>), Sha256(<<"b">>), Sha256(<<"c">>)>>
  /\ calc.value[1] = merkleRoot(<<Sha256(<<"a">>), Sha256(<<"b">>), Sha256(<<"c">>),
                                  Sha256(<<"c">>)>>)
  /\ calc.value[1] # merkleRoot(<<Sha256(<<"a">>), Sha256(<<"b">>)>>)

====
